---- MODULE Spec2Model ----
(***************************************************************************)
(* Job discovery pipeline of agent-null-null-job.                          *)
(*                                                                         *)
(* The model follows runJobDiscovery (job-hunter-service.ts) and the use   *)
(* cases it sequences: authenticate, scrapeJobs, processJobs, scoreJobs    *)
(* and sendNotifications.  Every collaborator call (storage, scraper, LLM, *)
(* notifier) is one step; its result (success value or failure) is drawn   *)
(* from a small set.                                                       *)
(*                                                                         *)
(* The use cases are Effect.gen generators.  A failing effect that is      *)
(* yielded inside Effect.gen ends the generator: the failure travels in    *)
(* the effect's error channel and is NOT thrown into the generator body,   *)
(* so a JavaScript try/catch around `yield*` only sees exceptions thrown   *)
(* synchronously by the generator's own expressions.  In runJobDiscovery   *)
(* the one such expression is `criteria.keywords.join(", ")` (line 116),   *)
(* which throws a TypeError when the criteria entry read from config.json  *)
(* (loaded without validation, config-service.ts:64) has no keywords.      *)
(*                                                                         *)
(* Run ids are `run-${Date.now()}`; runs are serialised by the process     *)
(* lock and the model numbers them 1, 2, ...  Every CLI invocation is a    *)
(* new process over the same storage file, so the initial state ranges     *)
(* over what earlier invocations can have left in the seen-set, the job    *)
(* store and the session slot.                                             *)
(*                                                                         *)
(* Spec is the pipeline.  SpecAuth, SpecScrape and SpecProcess run the     *)
(* use cases authenticate, scrapeJobs and processJobs on their own, call   *)
(* after call over the same storage and with the request fields the        *)
(* pipeline fixes (forceReauth, since, retryFailed) left open; SpecAuth    *)
(* and SpecScrape interleave the calls with purgeCache.  The steps of a    *)
(* use case are the same actions in every specification.                   *)
(*                                                                         *)
(* SpecScore is one process making one scoreJobs call over a score store   *)
(* that holds what earlier processes left: records of the current or an    *)
(* earlier profile version, younger than 24 hours or not.  SpecNotify runs *)
(* sendNotifications on its own, with jobs that may lack a score.          *)
(* SpecLock is the instance lock of the CLI: every process goes through    *)
(* acquireLock one file-system call at a time, runs its command and        *)
(* releases the lock; processes interleave freely.  Every way a command    *)
(* ends is followed through process.exit and the "exit" handler down to    *)
(* the code the process reports.                                           *)
(*                                                                         *)
(* SpecSend runs sendLastResults call after call over a job store whose    *)
(* jobs were saved under either criteria entry.  SpecRunScrape has both    *)
(* callers of scrapeJobs, the pipeline (which passes `since`) and the      *)
(* stand-alone call, and follows the pipeline up to the first saveJobRun   *)
(* after scraping.                                                         *)
(***************************************************************************)
EXTENDS Integers, Sequences, FiniteSets, TLC

\* ---------------------------------------------------------------- bounds
MaxJobId == 2      \* job ids are 1..MaxJobId
MaxScrape == 2     \* longest list the scraper returns in one call
MaxRuns == 1       \* runJobDiscovery calls in one behaviour
MaxOps == 2        \* stand-alone use-case calls in one behaviour
MaxRaw == 3        \* longest rawJobs list handed to a stand-alone processJobs call
MaxJobs == 2       \* longest jobs list handed to a stand-alone scoreJobs or sendNotifications call
MaxStored == 2     \* JobScore records in storage when a stand-alone scoreJobs call starts
MaxProcs == 2      \* CLI processes started in one behaviour

\* ------------------------------------------------------ program constants
AlertThreshold == 85     \* job-hunter-service.ts:118
MinScore == 70           \* config.scoring.minScore (test configuration)

JobIds == 1..MaxJobId
Scores == {MinScore - 1, MinScore, AlertThreshold}
NoSession == 0
CvVersion == "1.0"       \* config.scoring.cvVersion (config-service.ts:61)
CvVersions == {"1.0", "2.0"}
NoScore == -1            \* a job without a score
NoFailure == ""
NoJobScore == [ score |-> NoScore, cvVersion |-> "", recent |-> FALSE ]
Procs == 1..MaxProcs     \* a CLI process is named by its pid
DeadPid == MaxProcs + 1  \* pid of a process that no longer exists
NoFile == 0              \* the file does not exist
Corrupt == -1            \* the file exists and is not a lock record with a pid
NoCode == -1             \* process.exitCode is not set
NotStarted == [ pc |-> "off", pid |-> NoFile, after |-> "none", how |-> "none", code |-> NoCode ]
NoPurge == [ type |-> "none", ok |-> FALSE ]
Criteria == {"A", "B"}   \* ids of config.criteria
DefaultCriteria == "A"
NoCriteria == ""
NoRun == [status |-> "NONE"]
TypeErrorMessage == "Cannot read properties of undefined (reading 'join')"

VARIABLES
  pc,             \* position of runJobDiscovery ("idle" between calls)
  runCount,       \* runs started so far; the current run id
  dryRun,         \* argument dryRun of the current call
  keywordsOk,     \* criteria.keywords is an array (read at line 116)
  sendAlerts,     \* config.telegram.enabled (read at line 117)
  run,            \* local `run` (the initial record)
  updatedRun,     \* latest of updatedRun1 / updatedRun2 / updatedRun3
  runStore,       \* storage namespace run:*  (run id -> record)
  writes,         \* records handed to a successful saveJobRun in this run, in order
  sessionSlot,    \* storage key auth:session
  loginCount,     \* sessions handed out by scraper.login so far
  session,        \* local `session` returned by authenticate
  seen,           \* storage namespace seen:*
  jobStore,       \* storage namespace job:*
  scoreStore,     \* storage namespace score:*  (job id -> JobScore records, oldest first)
  scrapedJobs,    \* scrape-jobs.ts: result of scraper.scrapeJobs
  seenJobIds,     \* scrape-jobs.ts: result of storage.getSeenJobIds
  newJobs,        \* scrape-jobs.ts: scrapedJobs filtered by seenJobIds
  savedJobs,      \* scrape-jobs.ts: jobs returned by saveJob so far
  persisted,      \* job ids handed to a successful saveJob in this run, in order
  idx,            \* position in the list the current stage iterates over
  attempt,        \* process-jobs: extractJobData calls made for the current item
  processedJobs,  \* result of processJobs
  jobScore,       \* score-jobs: JobScore returned by llmService.scoreJob
  scoredJobs,     \* result of scoreJobs: records [job, score]
  called,         \* collaborator operations invoked in the current run
  outcome,        \* how the current call ended: "none", "returned", "failed"
  result,         \* JobRun returned to the caller
  thrown,         \* message of the exception caught at line 130
  op,             \* the entry point being executed: "run", "authenticate", "scrape",
                  \* "process", "score", "notify", "purge", "sendLast"
  opCount,        \* stand-alone use-case calls started so far
  forceReauth,    \* authenticate: request.forceReauth
  sessionExpired, \* authenticate: the stored session's expiresAt <= now when it is checked
  liveCheck,      \* authenticate: local `isLoggedIn`: "none", "accepted", "rejected"
  hasSince,       \* scrapeJobs: request.since is present
  retryFailed,    \* processJobs: request.retryFailed
  authError,      \* type of the AuthenticateError the current call failed with
  rawJobs,        \* processJobs: request.rawJobs
  succeeded,      \* positions of rawJobs whose extraction produced a job
  slot0,          \* the session slot when the current call started
  prevScraped,    \* scraper result of the previous stand-alone scrapeJobs call
  prevSaved,      \* jobs the previous stand-alone scrapeJobs call had saved and marked
  prevPersisted,  \* jobs the previous stand-alone scrapeJobs call had handed to saveJob
  prevOutcome,    \* outcome of the previous stand-alone scrapeJobs call ("none" after a purge)
  notified,       \* scraped job ids handed to sendNotifications by the current run
  notifiedBefore, \* scraped job ids handed to sendNotifications by earlier runs since the last purge
  extractLog,     \* processJobs: per position of rawJobs, the results of its extractJobData calls
  usePrefilter,   \* scoreJobs: request.usePrefilter
  scoreStore0,    \* storage namespace score:* when the current call started
  scoreLog,       \* scoreJobs: per job handled so far, the collaborator calls made for it
  failure,        \* type of the ScoreJobsError / SendNotificationsError the call failed with
  notifyLog,      \* sendNotifications: the notifier calls made, in order
  purge,          \* purgeCache: the type of the latest call and whether it returned
  runId,          \* sendNotifications: request.runId, "run", "replay" or "none"
  criteriaId,     \* criteria.id of the current call
  storedJobs,     \* sendLastResults: local `jobs`, the answer of getJobsByCriteria
  seen0,          \* storage namespace seen:* when the current call started
  jobStore0,      \* storage namespace job:* when the current call started
  savedFor,       \* per stored job, the criteria id of the scrapeJobs call that saved it
  lockFile,       \* cli: content of LOCK_FILE
  pidFile,        \* cli: content of PID_FILE
  proc            \* cli: per CLI process, where it is and what it read from the lock file

vars == << pc, runCount, dryRun, keywordsOk, sendAlerts, run, updatedRun,
           runStore, writes, sessionSlot, loginCount, session, seen, jobStore,
           scoreStore, scrapedJobs, seenJobIds, newJobs, savedJobs, persisted, idx,
           attempt,
           processedJobs, jobScore, scoredJobs, called, outcome, result, thrown,
           op, opCount, forceReauth, sessionExpired, liveCheck, hasSince, retryFailed, authError,
           rawJobs, succeeded, slot0, prevScraped, prevSaved, prevPersisted, prevOutcome,
           notified, notifiedBefore, extractLog, usePrefilter, scoreStore0, scoreLog,
           failure, notifyLog, purge, runId, criteriaId, storedJobs, seen0, jobStore0,
           savedFor, lockFile, pidFile, proc >>

\* storage that outlives a run
storageVars == << runStore, sessionSlot, seen, jobStore, scoreStore >>
\* inputs of the current call
inputVars == << runCount, dryRun >>
\* fields of the sendNotifications request
requestVars == << keywordsOk, sendAlerts >>
\* locals of scrapeJobs
scrapeVars == << scrapedJobs, seenJobIds, newJobs, savedJobs, persisted >>
\* locals of the later stages
stageVars == << attempt, processedJobs, jobScore, scoredJobs >>
\* the entry point and the arguments of the current call
callVars == << op, opCount, forceReauth, hasSince, retryFailed, usePrefilter, purge, runId,
              criteriaId, storedJobs >>
\* what earlier calls did
pastVars == << slot0, prevScraped, prevSaved, prevPersisted, prevOutcome, notifiedBefore,
              scoreStore0, seen0, jobStore0, savedFor >>
\* what authenticate found out about the stored session
authLocals == << sessionExpired, liveCheck >>
\* locals of processJobs
extractVars == << rawJobs, succeeded, extractLog >>
\* what scoreJobs and sendNotifications did in the current call
historyVars == << failure, scoreLog, notifyLog >>
\* the lock file, the pid file and the CLI processes
lockVars == << lockFile, pidFile, proc >>
\* everything but the lock
programVars == << pc, runCount, dryRun, keywordsOk, sendAlerts, run, updatedRun,
                  runStore, writes, sessionSlot, loginCount, session, seen, jobStore,
                  scoreStore, scrapedJobs, seenJobIds, newJobs, savedJobs, persisted, idx,
                  attempt, processedJobs, jobScore, scoredJobs, called, outcome, result,
                  thrown, op, opCount, forceReauth, sessionExpired, liveCheck, hasSince,
                  retryFailed, authError, rawJobs, succeeded, slot0, prevScraped, prevSaved,
                  prevPersisted, prevOutcome, notified, notifiedBefore, extractLog,
                  usePrefilter, scoreStore0, scoreLog, failure, notifyLog, purge, runId,
                  criteriaId, storedJobs, seen0, jobStore0, savedFor >>

\* --------------------------------------------------------------- helpers
\* the lists scraper.scrapeJobs can return: job ids in page order, repeats allowed
RECURSIVE SeqsUpTo(_, _)
SeqsUpTo(S, n) ==
  IF n = 0 THEN { << >> }
  ELSE LET shorter == SeqsUpTo(S, n - 1)
       IN shorter \cup { Append(s, x) : s \in { t \in shorter : Len(t) = n - 1 }, x \in S }

\* JobRun literal of job-hunter-service.ts:52-61
InitialRun(id) ==
  [ id |-> id, status |-> "RUNNING", jobsFound |-> 0, jobsProcessed |-> 0,
    jobsScored |-> 0, errors |-> << >>, completed |-> FALSE ]

\* variant: the record saved after scraping is already marked COMPLETED
UpdatedRun1_completes(r, n) == [ r EXCEPT !.jobsFound = n, !.status = "COMPLETED" ]

\* { ...run, jobsFound: scrapedJobs.length }
UpdatedRun1(r, n) == [ r EXCEPT !.jobsFound = n ]
\* variant: the processed count is not copied into the record
UpdatedRun2_stale(r, n) == r

\* { ...updatedRun1, jobsProcessed: processedJobs.length }
UpdatedRun2(r, n) == [ r EXCEPT !.jobsProcessed = n ]
\* { ...updatedRun2, jobsScored: scoredJobs.length }
UpdatedRun3(r, n) == [ r EXCEPT !.jobsScored = n ]
\* variant: the completed record is spread from the initial `run`, as failedRun is
CompletedRun_fromInitial(r) ==
  [ InitialRun(r.id) EXCEPT !.status = "COMPLETED", !.completed = TRUE ]

\* { ...r, status: "COMPLETED", completedAt: new Date() }
CompletedRun(r) == [ r EXCEPT !.status = "COMPLETED", !.completed = TRUE ]
\* { ...run, status: "FAILED", completedAt, errors: [...run.errors, errorMessage] }
FailedRun(r, msg) ==
  [ r EXCEPT !.status = "FAILED", !.completed = TRUE, !.errors = Append(r.errors, msg) ]

\* storage.saveJobRun: keyv.set(`run:${run.id}`, ...), a full overwrite
SaveJobRun(store, r) == [ store EXCEPT ![r.id] = r ]

\* a yielded effect failed: the generator is not resumed, the caller gets the failure
Abandon == /\ pc' = "idle"
           /\ outcome' = "failed"

Call(name) == called' = called \cup {name}

\* a use case returns: runJobDiscovery goes on at `label`, a stand-alone call is over
Return(label) == IF op = "run"
                   THEN pc' = label /\ UNCHANGED outcome
                   ELSE pc' = "idle" /\ outcome' = "returned"

\* variant: the failure is passed on as it came, without an AuthenticateError type
AuthFail_untyped(type) == Abandon /\ authError' = "DATABASE_ERROR"

\* authenticate.ts: Effect.mapError to an AuthenticateError of the given type
AuthFail(type) == Abandon /\ authError' = type

\* scrape-jobs.ts: Effect.mapError to a ScrapeJobsError of the given type when the
\* collaborator call of this step failed
ScrapeError(type) == failure' = IF outcome' = "failed" THEN type ELSE failure

\* ------------------------------------------------------------------ Init
\* a new process; the storage file holds what earlier invocations left
InitProgram ==
  /\ pc = "idle"
  /\ runCount = 0
  /\ dryRun = FALSE
  /\ keywordsOk = TRUE
  /\ sendAlerts = FALSE
  /\ run = NoRun
  /\ updatedRun = NoRun
  /\ runStore = [ i \in 1..MaxRuns |-> NoRun ]
  /\ writes = << >>
  /\ sessionSlot \in {NoSession, 1}
  /\ loginCount = sessionSlot
  /\ session = NoSession
  /\ seen \in SUBSET JobIds
  /\ jobStore = seen
  /\ scrapedJobs = << >>
  /\ seenJobIds = {}
  /\ newJobs = << >>
  /\ savedJobs = << >>
  /\ persisted = << >>
  /\ idx = 0
  /\ attempt = 0
  /\ processedJobs = << >>
  /\ jobScore = NoJobScore
  /\ scoredJobs = << >>
  /\ called = {}
  /\ outcome = "none"
  /\ result = NoRun
  /\ thrown = ""
  /\ op = "none"
  /\ opCount = 0
  /\ forceReauth = FALSE
  /\ sessionExpired = FALSE
  /\ liveCheck = "none"
  /\ hasSince = TRUE
  /\ retryFailed = TRUE
  /\ authError = ""
  /\ rawJobs = << >>
  /\ succeeded = {}
  /\ slot0 = NoSession
  /\ prevScraped = << >>
  /\ prevSaved = << >>
  /\ prevPersisted = << >>
  /\ prevOutcome = "none"
  /\ notified = {}
  /\ notifiedBefore \in SUBSET seen
  /\ extractLog = << >>
  /\ usePrefilter = TRUE
  /\ scoreStore0 = scoreStore
  /\ scoreLog = << >>
  /\ failure = NoFailure
  /\ notifyLog = << >>
  /\ purge = NoPurge
  /\ runId = "none"
  /\ criteriaId = DefaultCriteria
  /\ storedJobs = << >>
  /\ seen0 = seen
  /\ jobStore0 = jobStore
  /\ proc = [ p \in Procs |-> NotStarted ]

\* no scores stored, no lock left behind
\* the jobs in storage were saved by scrapeJobs calls for the default criteria
InitCriteria ==
  savedFor = [ j \in JobIds |-> IF j \in jobStore THEN DefaultCriteria ELSE NoCriteria ]

Init ==
  /\ scoreStore = [ j \in JobIds |-> << >> ]
  /\ lockFile = NoFile
  /\ pidFile = NoFile
  /\ InitProgram
  /\ InitCriteria

\* ------------------------------------------------- runJobDiscovery: start
\* lines 49-61: a new call; builds `run`
RunStart ==
  /\ pc = "idle"
  /\ runCount < MaxRuns
  /\ runCount' = runCount + 1
  /\ \E d \in BOOLEAN : dryRun' = d
  /\ keywordsOk' = TRUE
  /\ sendAlerts' = FALSE
  /\ run' = InitialRun(runCount + 1)
  /\ updatedRun' = NoRun
  /\ writes' = << >>
  /\ session' = NoSession
  /\ scrapedJobs' = << >>
  /\ seenJobIds' = {}
  /\ newJobs' = << >>
  /\ savedJobs' = << >>
  /\ persisted' = << >>
  /\ idx' = 0
  /\ attempt' = 0
  /\ processedJobs' = << >>
  /\ jobScore' = NoJobScore
  /\ scoredJobs' = << >>
  /\ called' = {}
  /\ outcome' = "none"
  /\ result' = NoRun
  /\ thrown' = ""
  /\ pc' = "saveInitial"
  /\ op' = "run"
  /\ forceReauth' = FALSE
  /\ sessionExpired' = FALSE
  /\ liveCheck' = "none"
  /\ hasSince' = TRUE
  /\ retryFailed' = TRUE
  /\ authError' = ""
  /\ rawJobs' = << >>
  /\ succeeded' = {}
  /\ slot0' = sessionSlot
  /\ notified' = {}
  /\ notifiedBefore' = notifiedBefore \cup notified
  /\ extractLog' = << >>
  /\ usePrefilter' = TRUE
  /\ scoreStore0' = scoreStore
  /\ scoreLog' = << >>
  /\ failure' = NoFailure
  /\ notifyLog' = << >>
  /\ runId' = "run"
  /\ criteriaId' = DefaultCriteria
  /\ storedJobs' = << >>
  /\ seen0' = seen
  /\ jobStore0' = jobStore
  /\ UNCHANGED << opCount, prevScraped, prevSaved, prevPersisted, prevOutcome, lockVars >>
  /\ purge' = NoPurge
  /\ UNCHANGED << loginCount, savedFor >>
  /\ UNCHANGED storageVars

\* variant: authentication starts without the initial record having been saved
SaveInitialRun_skipped ==
  /\ pc = "saveInitial"
  /\ pc' = "getSession"
  /\ UNCHANGED << storageVars, inputVars, requestVars, scrapeVars, stageVars, run,
                  updatedRun, writes, result, thrown, loginCount, session, idx,
                  called, outcome >>
  /\ UNCHANGED << callVars, authLocals, pastVars, lockVars, historyVars, authError, extractVars, notified >>

\* line 64: yield* storage.saveJobRun(run)
SaveInitialRun ==
  /\ pc = "saveInitial"
  /\ Call("saveJobRun")
  /\ \/ /\ runStore' = SaveJobRun(runStore, run)
        /\ writes' = Append(writes, run)
        /\ pc' = "getSession"
        /\ UNCHANGED outcome
     \/ /\ Abandon
        /\ UNCHANGED << runStore, writes >>
  /\ UNCHANGED << sessionSlot, seen, jobStore, scoreStore, loginCount, session,
                  run, updatedRun, idx, result, thrown >>
  /\ UNCHANGED << inputVars, requestVars, scrapeVars, stageVars >>
  /\ UNCHANGED << callVars, authLocals, pastVars, lockVars, historyVars, authError, extractVars, notified >>

\* ------------------------------------------------ authenticate({forceReauth})
runLocals == << run, updatedRun, writes, result, thrown >>

\* variant: deleteSession is called for an absent session as well
GetSession_deletesAbsent ==
  /\ pc = "getSession"
  /\ Call("getSession")
  /\ \/ /\ pc' = IF sessionSlot # NoSession THEN "isLoggedIn" ELSE "deleteSession"
        /\ UNCHANGED << outcome, authError >>
     \/ AuthFail("STORAGE_ERROR")
  /\ UNCHANGED << storageVars, inputVars, requestVars, scrapeVars, stageVars, runLocals,
                  loginCount, session, idx >>
  /\ UNCHANGED << callVars, authLocals, pastVars, lockVars, historyVars, extractVars, notified >>

\* authenticate.ts:27-38: storage.getSession()
GetSession ==
  /\ pc = "getSession"
  /\ Call("getSession")
  /\ \/ /\ pc' = IF sessionSlot # NoSession THEN "isLoggedIn" ELSE "login"
        /\ UNCHANGED << outcome, authError >>
     \/ AuthFail("STORAGE_ERROR")
  /\ UNCHANGED << storageVars, inputVars, requestVars, scrapeVars, stageVars, runLocals,
                  loginCount, session, idx >>
  /\ UNCHANGED << callVars, authLocals, pastVars, lockVars, historyVars, extractVars, notified >>

\* variant: a session the live check accepted is replaced by a new login all the same
IsLoggedIn_relogs ==
  /\ pc = "isLoggedIn"
  /\ Call("isLoggedIn")
  /\ \E e \in BOOLEAN : sessionExpired' = e
  /\ \/ /\ liveCheck' = "accepted"
        /\ pc' = "login"
        /\ UNCHANGED << session, outcome, authError >>
     \/ /\ liveCheck' = "rejected"
        /\ pc' = "deleteSession"
        /\ UNCHANGED << session, outcome, authError >>
     \/ /\ AuthFail("SCRAPING_ERROR")
        /\ UNCHANGED << session, liveCheck >>
  /\ UNCHANGED << storageVars, inputVars, requestVars, scrapeVars, stageVars, runLocals,
                  loginCount, idx >>
  /\ UNCHANGED << callVars, pastVars, lockVars, historyVars, extractVars, notified >>

\* authenticate.ts:42-55: scraper.isLoggedIn(session); a live session is returned as is.
\* Whether the session's expiresAt has passed is a fact of the moment of the check; the
\* use case does not read the field.
IsLoggedIn ==
  /\ pc = "isLoggedIn"
  /\ Call("isLoggedIn")
  /\ \E e \in BOOLEAN : sessionExpired' = e
  /\ \/ /\ liveCheck' = "accepted"
        /\ session' = sessionSlot
        /\ Return("getJobsByCriteria")
        /\ UNCHANGED authError
     \/ /\ liveCheck' = "rejected"
        /\ pc' = "deleteSession"
        /\ UNCHANGED << session, outcome, authError >>
     \/ /\ AuthFail("SCRAPING_ERROR")
        /\ UNCHANGED << session, liveCheck >>
  /\ UNCHANGED << storageVars, inputVars, requestVars, scrapeVars, stageVars, runLocals,
                  loginCount, idx >>
  /\ UNCHANGED << callVars, pastVars, lockVars, historyVars, extractVars, notified >>

\* authenticate.ts:58-68: storage.deleteSession()
DeleteSession ==
  /\ pc = "deleteSession"
  /\ Call("deleteSession")
  /\ \/ /\ sessionSlot' = NoSession
        /\ pc' = "login"
        /\ UNCHANGED << outcome, authError >>
     \/ /\ AuthFail("STORAGE_ERROR")
        /\ UNCHANGED sessionSlot
  /\ UNCHANGED << runStore, seen, jobStore, scoreStore, inputVars, requestVars, scrapeVars,
                  stageVars, runLocals, loginCount, session, idx >>
  /\ UNCHANGED << callVars, authLocals, pastVars, lockVars, historyVars, extractVars, notified >>

\* authenticate.ts:73-83: scraper.login()
Login ==
  /\ pc = "login"
  /\ Call("login")
  /\ \/ /\ loginCount' = loginCount + 1
        /\ session' = loginCount + 1
        /\ pc' = "saveSession"
        /\ UNCHANGED << outcome, authError >>
     \/ /\ AuthFail("AUTH_FAILED")
        /\ UNCHANGED << loginCount, session >>
  /\ UNCHANGED << storageVars, inputVars, requestVars, scrapeVars, stageVars, runLocals, idx >>
  /\ UNCHANGED << callVars, authLocals, pastVars, lockVars, historyVars, extractVars, notified >>

\* authenticate.ts:86-98: storage.saveSession(session); return session
SaveSession ==
  /\ pc = "saveSession"
  /\ Call("saveSession")
  /\ \/ /\ sessionSlot' = session
        /\ Return("getJobsByCriteria")
        /\ UNCHANGED authError
     \/ /\ AuthFail("STORAGE_ERROR")
        /\ UNCHANGED sessionSlot
  /\ UNCHANGED << runStore, seen, jobStore, scoreStore, inputVars, requestVars, scrapeVars,
                  stageVars, runLocals, loginCount, session, idx >>
  /\ UNCHANGED << callVars, authLocals, pastVars, lockVars, historyVars, extractVars, notified >>

\* ------------------------------------- scrapeJobs({criteria, session, runId, since})
\* variant: the seen-set is not consulted
NewJobs_unfiltered(scraped, seenIds) == scraped

\* scrape-jobs.ts:69: scrapedJobs.filter((job) => !seenJobIds.includes(job.id.value))
NewJobs(scraped, seenIds) == SelectSeq(scraped, LAMBDA j : j \notin seenIds)

\* storage.getJobsByCriteria: the stored jobs (all of source "linkedin"), in key order
RECURSIVE StoredJobs(_)
StoredJobs(store) ==
  IF store = {} THEN << >>
  ELSE LET m == CHOOSE x \in store : \A y \in store : x >= y
       IN Append(StoredJobs(store \ {m}), m)

\* variant: the `since` of the request is not looked at
ReturnsStored_whateverSince(store, since) == store # {}

\* scrape-jobs.ts:40: existingJobs.length > 0 && !request.since
ReturnsStored(store, since) == store # {} /\ ~since

\* scrape-jobs.ts:24-46: storage.getJobsByCriteria(criteria.id, since); without a
\* `since` the stored jobs, if any, are returned and the scraper is not called.
\* runJobDiscovery always passes `since` (line 75).
GetJobsByCriteria ==
  /\ pc = "getJobsByCriteria"
  /\ Call("getJobsByCriteria")
  /\ \/ /\ ReturnsStored(jobStore, hasSince)
        /\ savedJobs' = StoredJobs(jobStore)
        /\ Return("saveRun1")
     \/ /\ ~ReturnsStored(jobStore, hasSince)
        /\ pc' = "scrapeJobs"
        /\ UNCHANGED << savedJobs, outcome >>
     \/ /\ Abandon
        /\ UNCHANGED savedJobs
  /\ ScrapeError("STORAGE_ERROR")
  /\ UNCHANGED << storageVars, inputVars, requestVars, scrapedJobs, seenJobIds, newJobs,
                  persisted, stageVars, runLocals, loginCount, session, idx >>
  /\ UNCHANGED << callVars, authLocals, pastVars, lockVars, scoreLog, notifyLog, authError, extractVars, notified >>

\* scrape-jobs.ts:44-54: scraper.scrapeJobs(criteria, session)
ScrapeJobs ==
  /\ pc = "scrapeJobs"
  /\ Call("scrapeJobs")
  /\ \/ /\ \E s \in SeqsUpTo(JobIds, MaxScrape) : scrapedJobs' = s
        /\ pc' = "getSeenJobIds"
        /\ UNCHANGED outcome
     \/ /\ Abandon
        /\ UNCHANGED scrapedJobs
  /\ ScrapeError("SCRAPING_FAILED")
  /\ UNCHANGED << storageVars, inputVars, requestVars, seenJobIds, newJobs, savedJobs, persisted,
                  stageVars,
                  runLocals, loginCount, session, idx >>
  /\ UNCHANGED << callVars, authLocals, pastVars, lockVars, scoreLog, notifyLog, authError, extractVars, notified >>

\* variant: the seen ids come back empty whatever is stored
GetSeenJobIds_empty ==
  /\ pc = "getSeenJobIds"
  /\ Call("getSeenJobIds")
  /\ \/ /\ seenJobIds' = {}
        /\ newJobs' = NewJobs(scrapedJobs, {})
        /\ savedJobs' = << >>
        /\ idx' = 1
        /\ IF NewJobs(scrapedJobs, {}) = << >>
             THEN Return("saveRun1")
             ELSE pc' = "saveJob" /\ UNCHANGED outcome
     \/ /\ Abandon
        /\ UNCHANGED << seenJobIds, newJobs, savedJobs, idx >>
  /\ ScrapeError("STORAGE_ERROR")
  /\ UNCHANGED << storageVars, inputVars, requestVars, scrapedJobs, persisted, stageVars,
                  runLocals, loginCount, session >>
  /\ UNCHANGED << callVars, authLocals, pastVars, lockVars, scoreLog, notifyLog, authError, extractVars, notified >>

\* scrape-jobs.ts:57-69: storage.getSeenJobIds(), then the filter
GetSeenJobIds ==
  /\ pc = "getSeenJobIds"
  /\ Call("getSeenJobIds")
  /\ \/ /\ seenJobIds' = seen
        /\ newJobs' = NewJobs(scrapedJobs, seen)
        /\ savedJobs' = << >>
        /\ idx' = 1
        /\ IF NewJobs(scrapedJobs, seen) = << >>
             THEN Return("saveRun1")
             ELSE pc' = "saveJob" /\ UNCHANGED outcome
     \/ /\ Abandon
        /\ UNCHANGED << seenJobIds, newJobs, savedJobs, idx >>
  /\ ScrapeError("STORAGE_ERROR")
  /\ UNCHANGED << storageVars, inputVars, requestVars, scrapedJobs, persisted, stageVars,
                  runLocals, loginCount, session >>
  /\ UNCHANGED << callVars, authLocals, pastVars, lockVars, scoreLog, notifyLog, authError, extractVars, notified >>

\* variant: saveJob reports success without having written the record
SaveJobRecord_dropped(store, id) == store

\* storage.saveJob: keyv.set(`job:${job.id.value}`, ...); one record per id
SaveJobRecord(store, id) == store \cup {id}

\* scrape-jobs.ts:74-84: storage.saveJob(job) for newJobs[idx]
SaveJob ==
  /\ pc = "saveJob"
  /\ Call("saveJob")
  /\ \/ /\ jobStore' = SaveJobRecord(jobStore, newJobs[idx])
        /\ savedFor' = [ savedFor EXCEPT ![newJobs[idx]] = criteriaId ]
        /\ persisted' = Append(persisted, newJobs[idx])
        /\ pc' = "markJobAsSeen"
        /\ UNCHANGED outcome
     \/ /\ Abandon
        /\ UNCHANGED << jobStore, savedFor, persisted >>
  /\ ScrapeError("STORAGE_ERROR")
  /\ UNCHANGED << runStore, sessionSlot, seen, scoreStore, inputVars, requestVars,
                  scrapedJobs, seenJobIds, newJobs, savedJobs,
                  stageVars, runLocals, loginCount, session, idx >>
  /\ UNCHANGED << callVars, authLocals, slot0, prevScraped, prevSaved, prevPersisted,
                  prevOutcome, notifiedBefore, scoreStore0, seen0, jobStore0, lockVars,
                  scoreLog, notifyLog,
                  authError, extractVars, notified >>

\* variant: marking an id that is already seen removes it
MarkSeen_toggles(seenIds, id) == IF id \in seenIds THEN seenIds \ {id} ELSE seenIds \cup {id}

\* storage.markJobAsSeen: keyv.set(`seen:${jobId}`, true)
MarkSeen(seenIds, id) == seenIds \cup {id}

\* variant: the job is returned without its id having been marked seen
MarkJobAsSeen_skipped ==
  /\ pc = "markJobAsSeen"
  /\ Call("markJobAsSeen")
  /\ \/ /\ seen' = seen
        /\ savedJobs' = Append(savedJobs, newJobs[idx])
        /\ idx' = idx + 1
        /\ IF idx = Len(newJobs)
             THEN Return("saveRun1")
             ELSE pc' = "saveJob" /\ UNCHANGED outcome
     \/ /\ Abandon
        /\ UNCHANGED << seen, savedJobs, idx >>
  /\ ScrapeError("STORAGE_ERROR")
  /\ UNCHANGED << runStore, sessionSlot, jobStore, scoreStore, inputVars, requestVars, scrapedJobs,
                  seenJobIds, newJobs, persisted, stageVars, runLocals, loginCount, session >>
  /\ UNCHANGED << callVars, authLocals, pastVars, lockVars, scoreLog, notifyLog, authError, extractVars, notified >>

\* scrape-jobs.ts:87-99: storage.markJobAsSeen(job.id.value); return savedJob
MarkJobAsSeen ==
  /\ pc = "markJobAsSeen"
  /\ Call("markJobAsSeen")
  /\ \/ /\ seen' = MarkSeen(seen, newJobs[idx])
        /\ savedJobs' = Append(savedJobs, newJobs[idx])
        /\ idx' = idx + 1
        /\ IF idx = Len(newJobs)
             THEN Return("saveRun1")
             ELSE pc' = "saveJob" /\ UNCHANGED outcome
     \/ /\ Abandon
        /\ UNCHANGED << seen, savedJobs, idx >>
  /\ ScrapeError("STORAGE_ERROR")
  /\ UNCHANGED << runStore, sessionSlot, jobStore, scoreStore, inputVars, requestVars, scrapedJobs,
                  seenJobIds, newJobs, persisted, stageVars, runLocals, loginCount, session >>
  /\ UNCHANGED << callVars, authLocals, pastVars, lockVars, scoreLog, notifyLog, authError, extractVars, notified >>

\* variant: everything the scraper answered goes on to extraction
RawJobsOf_scraped(jobs) == scrapedJobs

\* job-hunter-service.ts:87-91: scrapedJobs.map(...), one raw job per job scrapeJobs
\* returned, in order
RawJobsOf(jobs) == jobs

\* ------------------------------------------------ runJobDiscovery: lines 79-84
\* variant: the dryRun flag is not tested, extraction always follows
SaveRun1_ignoresDryRun ==
  /\ pc = "saveRun1"
  /\ Call("saveJobRun")
  /\ updatedRun' = UpdatedRun1(run, Len(savedJobs))
  /\ \/ /\ runStore' = SaveJobRun(runStore, updatedRun')
        /\ writes' = Append(writes, updatedRun')
        /\ idx' = 1
        /\ attempt' = 0
        /\ rawJobs' = RawJobsOf(savedJobs)
        /\ pc' = IF savedJobs = << >> THEN "saveRun2" ELSE "extractJobData"
        /\ UNCHANGED << result, outcome >>
     \/ /\ Abandon
        /\ UNCHANGED << runStore, writes, result, idx, attempt, rawJobs >>
  /\ UNCHANGED << succeeded, extractLog >>
  /\ UNCHANGED << sessionSlot, seen, jobStore, scoreStore, inputVars, requestVars,
                  scrapeVars, processedJobs, jobScore, scoredJobs, run, thrown,
                  loginCount, session >>
  /\ UNCHANGED << callVars, authLocals, pastVars, lockVars, historyVars, authError, notified >>

\* updatedRun1 is saved; a dry run then returns the COMPLETED copy without saving it
SaveRun1 ==
  /\ pc = "saveRun1"
  /\ Call("saveJobRun")
  /\ updatedRun' = UpdatedRun1(run, Len(savedJobs))
  /\ \/ /\ runStore' = SaveJobRun(runStore, updatedRun')
        /\ writes' = Append(writes, updatedRun')
        /\ IF dryRun
             THEN /\ result' = CompletedRun(updatedRun')
                  /\ outcome' = "returned"
                  /\ pc' = "idle"
                  /\ UNCHANGED << idx, attempt, rawJobs >>
             ELSE /\ idx' = 1
                  /\ attempt' = 0
                  /\ rawJobs' = RawJobsOf(savedJobs)
                  /\ pc' = IF savedJobs = << >> THEN "saveRun2" ELSE "extractJobData"
                  /\ UNCHANGED << result, outcome >>
     \/ /\ Abandon
        /\ UNCHANGED << runStore, writes, result, idx, attempt, rawJobs >>
  /\ UNCHANGED << succeeded, extractLog >>
  /\ UNCHANGED << sessionSlot, seen, jobStore, scoreStore, inputVars, requestVars, scrapeVars,
                  processedJobs, jobScore, scoredJobs, run, thrown, loginCount, session >>
  /\ UNCHANGED << callVars, authLocals, pastVars, lockVars, historyVars, authError, notified >>

\* ------------------------------------------------ processJobs({rawJobs, retryFailed})
\* job-hunter-service.ts:87-93: rawJobs are the scraped jobs, retryFailed is true
\* variant: a failed extraction is retried twice
RetryTimes_twice(retry) == IF retry THEN 2 ELSE 0

\* process-jobs: Effect.retry({ times: request.retryFailed ? 1 : 0 })
RetryTimes(retry) == IF retry THEN 1 ELSE 0

\* variant: an item whose extraction failed ends the whole call
ExtractNext_failsFast == IF idx \in succeeded'
                           THEN IF idx = Len(rawJobs) THEN Return("saveRun2")
                                ELSE pc' = "extractJobData" /\ UNCHANGED outcome
                           ELSE Abandon

\* process-jobs: the forEach goes to the next item, or processJobs returns
ExtractNext == IF idx = Len(rawJobs) THEN Return("saveRun2")
               ELSE pc' = "extractJobData" /\ UNCHANGED outcome

\* the result r of one more extractJobData call for position i
LogCall(log, i, r) == IF Len(log) < i THEN Append(log, << r >>)
                      ELSE [ log EXCEPT ![i] = Append(@, r) ]

\* process-jobs: llmService.extractJobData(rawJob.content) for rawJobs[idx], with
\* retry and catchAll(() => null); the nulls are filtered out of the result
ExtractJobData ==
  /\ pc = "extractJobData"
  /\ Call("extractJobData")
  /\ \/ /\ processedJobs' = Append(processedJobs, rawJobs[idx])
        /\ succeeded' = succeeded \cup {idx}
        /\ extractLog' = LogCall(extractLog, idx, "ok")
        /\ idx' = idx + 1
        /\ attempt' = 0
        /\ ExtractNext
     \/ /\ attempt < RetryTimes(retryFailed)
        /\ extractLog' = LogCall(extractLog, idx, "failed")
        /\ attempt' = attempt + 1
        /\ UNCHANGED << processedJobs, succeeded, idx, pc, outcome >>
     \/ /\ attempt >= RetryTimes(retryFailed)
        /\ extractLog' = LogCall(extractLog, idx, "failed")
        /\ UNCHANGED << processedJobs, succeeded >>
        /\ idx' = idx + 1
        /\ attempt' = 0
        /\ ExtractNext
  /\ UNCHANGED << storageVars, inputVars, requestVars, scrapeVars, jobScore, scoredJobs, runLocals,
                  loginCount, session >>
  /\ UNCHANGED << callVars, authLocals, pastVars, lockVars, historyVars, authError, rawJobs, notified >>

\* job-hunter-service.ts:96-97
SaveRun2 ==
  /\ pc = "saveRun2"
  /\ Call("saveJobRun")
  /\ updatedRun' = UpdatedRun2(updatedRun, Len(processedJobs))
  /\ \/ /\ runStore' = SaveJobRun(runStore, updatedRun')
        /\ writes' = Append(writes, updatedRun')
        /\ idx' = 1
        /\ pc' = IF processedJobs = << >> THEN "saveRun3" ELSE "getJobScores"
        /\ UNCHANGED outcome
     \/ /\ Abandon
        /\ UNCHANGED << runStore, writes, idx >>
  /\ UNCHANGED << sessionSlot, seen, jobStore, scoreStore, inputVars, requestVars, scrapeVars,
                  stageVars, run, result, thrown, loginCount, session >>
  /\ UNCHANGED << callVars, authLocals, pastVars, lockVars, historyVars, authError, extractVars, notified >>

\* ---------------- scoreJobs({jobs, cvContent, cvVersion, minScore, usePrefilter: true})
\* score-jobs: if (jobScore.score >= request.minScore) the job is part of the result
MeetsMinScore(score, minScore) == score >= minScore

\* score-jobs: the forEach goes to the next job, or scoreJobs returns
ScoreNext == /\ idx' = idx + 1
             /\ IF idx = Len(processedJobs) THEN Return("saveRun3")
                ELSE pc' = "getJobScores" /\ UNCHANGED outcome

\* variant: the failure is passed on without one of the ScoreJobsError types
ScoreFail_untyped(type) == Abandon /\ failure' = "DATABASE_ERROR"

\* score-jobs: Effect.mapError to a ScoreJobsError of the given type
ScoreFail(type) == Abandon /\ failure' = type

\* openai-service.ts:140-149: the JobScore the LLM adapter builds: cvVersion "1.0",
\* scoredAt: new Date().  `recent` stands for Date.now() - scoredAt < 24 hours.
FreshScore(s) == [ score |-> s, cvVersion |-> "1.0", recent |-> TRUE ]

\* variant: the profile version of the stored record is not compared
IsRecentScore_anyVersion(rec, cv) == rec.recent

\* score-jobs: score.cvVersion === request.cvVersion && now - scoredAt < 24h
IsRecentScore(rec, cv) == rec.cvVersion = cv /\ rec.recent

\* getJobScores hands the records over most recent first and Array.find takes the
\* first that qualifies: the index of the latest qualifying record, 0 when none does
RecentScoreIndex(stored, cv) ==
  LET hits == { i \in 1..Len(stored) : IsRecentScore(stored[i], cv) }
  IN IF hits = {} THEN 0 ELSE CHOOSE i \in hits : \A k \in hits : k <= i

\* what scoreJobs did for one job: the lookup ("hit", "miss", "failed"), the answer of
\* prefilterJob ("true", "false", "failed"), the results of scoreJob and saveJobScore
\* ("ok", "failed"), "none" for a call not made, and the score found or computed
ScoreEntry(job, lookup, score) ==
  [ job |-> job, lookup |-> lookup, prefilter |-> "none", scoreJob |-> "none",
    score |-> score, saved |-> "none" ]

\* score-jobs: storage.getJobScores(job.id.value) and the search for a recent score;
\* a job with a recent score is returned with it at once
GetJobScores ==
  /\ pc = "getJobScores"
  /\ Call("getJobScores")
  /\ LET job == processedJobs[idx]
         stored == scoreStore[job]
         hit == RecentScoreIndex(stored, CvVersion)
     IN \/ /\ hit # 0
           /\ scoredJobs' = Append(scoredJobs, [ job |-> job, score |-> stored[hit].score ])
           /\ scoreLog' = Append(scoreLog, ScoreEntry(job, "hit", stored[hit].score))
           /\ ScoreNext
           /\ UNCHANGED failure
        \/ /\ hit = 0
           /\ scoreLog' = Append(scoreLog, ScoreEntry(job, "miss", NoScore))
           /\ pc' = IF usePrefilter THEN "prefilterJob" ELSE "scoreJob"
           /\ UNCHANGED << scoredJobs, idx, outcome, failure >>
        \/ /\ ScoreFail("STORAGE_ERROR")
           /\ scoreLog' = Append(scoreLog, ScoreEntry(job, "failed", NoScore))
           /\ UNCHANGED << scoredJobs, idx >>
  /\ UNCHANGED << storageVars, inputVars, requestVars, scrapeVars, attempt, processedJobs, jobScore,
                  runLocals, loginCount, session >>
  /\ UNCHANGED << callVars, authLocals, pastVars, lockVars, notifyLog, authError, extractVars,
                  notified >>

\* variant: a prefilter that fails drops the job
PrefilterJob_failClosed ==
  /\ pc = "prefilterJob"
  /\ Call("prefilterJob")
  /\ \/ /\ scoreLog' = [ scoreLog EXCEPT ![Len(scoreLog)].prefilter = "true" ]
        /\ pc' = "scoreJob"
        /\ UNCHANGED << idx, outcome >>
     \/ /\ \E answer \in {"false", "failed"} :
             scoreLog' = [ scoreLog EXCEPT ![Len(scoreLog)].prefilter = answer ]
        /\ ScoreNext
  /\ UNCHANGED << storageVars, inputVars, requestVars, scrapeVars, stageVars, runLocals,
                  loginCount, session >>
  /\ UNCHANGED << callVars, authLocals, pastVars, lockVars, failure, notifyLog, authError,
                  extractVars, notified >>

\* score-jobs: llmService.prefilterJob(job, cvContent) with catchAll(() => true);
\* if (!shouldScore) return null
PrefilterJob ==
  /\ pc = "prefilterJob"
  /\ Call("prefilterJob")
  /\ \/ /\ \E answer \in {"true", "failed"} :
             scoreLog' = [ scoreLog EXCEPT ![Len(scoreLog)].prefilter = answer ]
        /\ pc' = "scoreJob"
        /\ UNCHANGED << idx, outcome >>
     \/ /\ scoreLog' = [ scoreLog EXCEPT ![Len(scoreLog)].prefilter = "false" ]
        /\ ScoreNext
  /\ UNCHANGED << storageVars, inputVars, requestVars, scrapeVars, stageVars, runLocals,
                  loginCount, session >>
  /\ UNCHANGED << callVars, authLocals, pastVars, lockVars, failure, notifyLog, authError,
                  extractVars, notified >>

\* score-jobs: llmService.scoreJob(job, cvContent)
ScoreJob ==
  /\ pc = "scoreJob"
  /\ Call("scoreJob")
  /\ \/ /\ \E s \in Scores :
             /\ jobScore' = FreshScore(s)
             /\ scoreLog' = [ scoreLog EXCEPT ![Len(scoreLog)].scoreJob = "ok",
                                              ![Len(scoreLog)].score = s ]
        /\ pc' = "saveJobScore"
        /\ UNCHANGED << outcome, failure >>
     \/ /\ ScoreFail("LLM_ERROR")
        /\ scoreLog' = [ scoreLog EXCEPT ![Len(scoreLog)].scoreJob = "failed" ]
        /\ UNCHANGED jobScore
  /\ UNCHANGED << storageVars, inputVars, requestVars, scrapeVars, attempt, processedJobs, scoredJobs,
                  runLocals, loginCount, session, idx >>
  /\ UNCHANGED << callVars, authLocals, pastVars, lockVars, notifyLog, authError, extractVars,
                  notified >>

\* variant: a score below the minimum is not stored
SaveJobScore_aboveOnly ==
  /\ pc = "saveJobScore"
  /\ Call("saveJobScore")
  /\ LET job == processedJobs[idx]
     IN \/ /\ scoreStore' = IF MeetsMinScore(jobScore.score, MinScore)
                              THEN [ scoreStore EXCEPT ![job] = Append(@, jobScore) ]
                              ELSE scoreStore
           /\ scoreLog' = [ scoreLog EXCEPT ![Len(scoreLog)].saved = "ok" ]
           /\ scoredJobs' = IF MeetsMinScore(jobScore.score, MinScore)
                              THEN Append(scoredJobs, [ job |-> job, score |-> jobScore.score ])
                              ELSE scoredJobs
           /\ ScoreNext
           /\ UNCHANGED failure
        \/ /\ ScoreFail("STORAGE_ERROR")
           /\ scoreLog' = [ scoreLog EXCEPT ![Len(scoreLog)].saved = "failed" ]
           /\ UNCHANGED << scoreStore, scoredJobs, idx >>
  /\ UNCHANGED << runStore, sessionSlot, seen, jobStore, inputVars, requestVars, scrapeVars, attempt,
                  processedJobs, jobScore, runLocals, loginCount, session >>
  /\ UNCHANGED << callVars, authLocals, pastVars, lockVars, notifyLog, authError, extractVars,
                  notified >>

\* score-jobs: storage.saveJobScore(jobScore), then the minScore test
SaveJobScore ==
  /\ pc = "saveJobScore"
  /\ Call("saveJobScore")
  /\ LET job == processedJobs[idx]
     IN \/ /\ scoreStore' = [ scoreStore EXCEPT ![job] = Append(@, jobScore) ]
           /\ scoreLog' = [ scoreLog EXCEPT ![Len(scoreLog)].saved = "ok" ]
           /\ scoredJobs' = IF MeetsMinScore(jobScore.score, MinScore)
                              THEN Append(scoredJobs, [ job |-> job, score |-> jobScore.score ])
                              ELSE scoredJobs
           /\ ScoreNext
           /\ UNCHANGED failure
        \/ /\ ScoreFail("STORAGE_ERROR")
           /\ scoreLog' = [ scoreLog EXCEPT ![Len(scoreLog)].saved = "failed" ]
           /\ UNCHANGED << scoreStore, scoredJobs, idx >>
  /\ UNCHANGED << runStore, sessionSlot, seen, jobStore, inputVars, requestVars, scrapeVars, attempt,
                  processedJobs, jobScore, runLocals, loginCount, session >>
  /\ UNCHANGED << callVars, authLocals, pastVars, lockVars, notifyLog, authError, extractVars,
                  notified >>

\* job-hunter-service.ts:109-110
SaveRun3 ==
  /\ pc = "saveRun3"
  /\ Call("saveJobRun")
  /\ updatedRun' = UpdatedRun3(updatedRun, Len(scoredJobs))
  /\ \/ /\ runStore' = SaveJobRun(runStore, updatedRun')
        /\ writes' = Append(writes, updatedRun')
        /\ pc' = "notify"
        /\ UNCHANGED outcome
     \/ /\ Abandon
        /\ UNCHANGED << runStore, writes >>
  /\ UNCHANGED << sessionSlot, seen, jobStore, scoreStore, inputVars, requestVars, scrapeVars,
                  stageVars, run, result, thrown, loginCount, session, idx >>
  /\ UNCHANGED << callVars, authLocals, pastVars, lockVars, historyVars, authError, extractVars, notified >>

\* --------- sendNotifications({jobs, runId, criteria, sendAlerts, alertThreshold: 85})
\* send-notifications: jobs.filter((job) => (job.score ?? 0) >= request.alertThreshold)
ScoreOrZero(j) == IF j.score = NoScore THEN 0 ELSE j.score
\* variant: a job needs a score above the threshold
HighScoreJobs_strict(jobs, threshold) == SelectSeq(jobs, LAMBDA j : ScoreOrZero(j) > threshold)

\* request.jobs.filter(...)
HighScoreJobs(jobs, threshold) == SelectSeq(jobs, LAMBDA j : ScoreOrZero(j) >= threshold)

\* variant: a digest that cannot be sent is passed over
NotifyFail_passedOver(type) == Return("saveCompleted") /\ UNCHANGED failure

\* send-notifications: Effect.mapError to a SendNotificationsError of the given type
NotifyFail(type) == Abandon /\ failure' = type

\* one notifier call: the digest for request.jobs under request.runId, or the alert for
\* a job
DigestSent(ok) == [ kind |-> "digest", job |-> 0, score |-> NoScore, ok |-> ok,
                    jobs |-> scoredJobs, runId |-> runId ]
AlertSent(j, ok) == [ kind |-> "alert", job |-> j.job, score |-> ScoreOrZero(j), ok |-> ok ]

\* job-hunter-service.ts:113-119: the request is built first.  criteria and config are
\* values fixed before the call and first read here (config.json is loaded without
\* validation); criteria.keywords.join throws inside the try block when keywords is
\* missing.  sendNotifications returns at once for an empty list.
Notify ==
  /\ pc = "notify"
  /\ \E k \in BOOLEAN : keywordsOk' = k
  /\ \E t \in BOOLEAN : sendAlerts' = t
  /\ IF ~keywordsOk'
       THEN /\ thrown' = TypeErrorMessage
            /\ pc' = "catch"
            /\ UNCHANGED notified
       ELSE /\ pc' = IF scoredJobs = << >> THEN "saveCompleted" ELSE "sendJobDigest"
            /\ notified' = { scoredJobs[i].job : i \in 1..Len(scoredJobs) }
            /\ UNCHANGED thrown
  /\ UNCHANGED << storageVars, inputVars, scrapeVars, stageVars, run, updatedRun, writes,
                  result, loginCount, session, idx, called, outcome >>
  /\ UNCHANGED << callVars, authLocals, pastVars, lockVars, historyVars, authError, extractVars >>

\* send-notifications: telegramService.sendJobDigest(jobs, runId), then the alerts
\* when request.sendAlerts is set
SendJobDigest ==
  /\ pc = "sendJobDigest"
  /\ Call("sendJobDigest")
  /\ \/ /\ notifyLog' = Append(notifyLog, DigestSent(TRUE))
        /\ idx' = 1
        /\ IF sendAlerts /\ HighScoreJobs(scoredJobs, AlertThreshold) # << >>
             THEN pc' = "sendJobAlert" /\ UNCHANGED outcome
             ELSE Return("saveCompleted")
        /\ UNCHANGED failure
     \/ /\ notifyLog' = Append(notifyLog, DigestSent(FALSE))
        /\ NotifyFail("TELEGRAM_ERROR")
        /\ UNCHANGED idx
  /\ UNCHANGED << storageVars, inputVars, requestVars, scrapeVars, stageVars, runLocals,
                  loginCount, session >>
  /\ UNCHANGED << callVars, authLocals, pastVars, lockVars, scoreLog, authError, extractVars,
                  notified >>

\* variant: an alert that fails ends the call
SendJobAlert_failsFast ==
  /\ pc = "sendJobAlert"
  /\ Call("sendJobAlert")
  /\ LET job == HighScoreJobs(scoredJobs, AlertThreshold)[idx]
     IN \/ /\ notifyLog' = Append(notifyLog, AlertSent(job, TRUE))
           /\ idx' = idx + 1
           /\ IF idx = Len(HighScoreJobs(scoredJobs, AlertThreshold))
                THEN Return("saveCompleted")
                ELSE pc' = "sendJobAlert" /\ UNCHANGED outcome
           /\ UNCHANGED failure
        \/ /\ notifyLog' = Append(notifyLog, AlertSent(job, FALSE))
           /\ NotifyFail("TELEGRAM_ERROR")
           /\ UNCHANGED idx
  /\ UNCHANGED << storageVars, inputVars, requestVars, scrapeVars, stageVars, runLocals,
                  loginCount, session >>
  /\ UNCHANGED << callVars, authLocals, pastVars, lockVars, scoreLog, authError,
                  extractVars, notified >>

\* send-notifications: telegramService.sendJobAlert(job, job.score ?? 0) with
\* catchAll(() => undefined): the loop goes on whether the alert was sent or not
SendJobAlert ==
  /\ pc = "sendJobAlert"
  /\ Call("sendJobAlert")
  /\ \E ok \in BOOLEAN :
       notifyLog' = Append(notifyLog, AlertSent(HighScoreJobs(scoredJobs, AlertThreshold)[idx], ok))
  /\ idx' = idx + 1
  /\ IF idx = Len(HighScoreJobs(scoredJobs, AlertThreshold))
       THEN Return("saveCompleted")
       ELSE pc' = "sendJobAlert" /\ UNCHANGED outcome
  /\ UNCHANGED << storageVars, inputVars, requestVars, scrapeVars, stageVars, runLocals,
                  loginCount, session >>
  /\ UNCHANGED << callVars, authLocals, pastVars, lockVars, failure, scoreLog, authError,
                  extractVars, notified >>

\* --------------------------------------------- runJobDiscovery: lines 122-129
SaveCompletedRun ==
  /\ pc = "saveCompleted"
  /\ Call("saveJobRun")
  /\ \/ /\ runStore' = SaveJobRun(runStore, CompletedRun(updatedRun))
        /\ writes' = Append(writes, CompletedRun(updatedRun))
        /\ result' = CompletedRun(updatedRun)
        /\ outcome' = "returned"
        /\ pc' = "idle"
     \/ /\ Abandon
        /\ UNCHANGED << runStore, writes, result >>
  /\ UNCHANGED << sessionSlot, seen, jobStore, scoreStore, inputVars, requestVars, scrapeVars,
                  stageVars, run, updatedRun, thrown, loginCount, session, idx >>
  /\ UNCHANGED << callVars, authLocals, pastVars, lockVars, historyVars, authError, extractVars, notified >>

\* lines 130-140: the catch block saves failedRun (built from `run`) and rethrows
CatchFailed ==
  /\ pc = "catch"
  /\ Call("saveJobRun")
  /\ \/ /\ runStore' = SaveJobRun(runStore, FailedRun(run, thrown))
        /\ writes' = Append(writes, FailedRun(run, thrown))
     \/ UNCHANGED << runStore, writes >>
  /\ Abandon
  /\ UNCHANGED << sessionSlot, seen, jobStore, scoreStore, inputVars, requestVars, scrapeVars,
                  stageVars, run, updatedRun, result, thrown, loginCount, session, idx >>
  /\ UNCHANGED << callVars, authLocals, pastVars, lockVars, historyVars, authError, extractVars, notified >>

\* ------------------------------------------------------------- purgeCache(type)
\* job-hunter-service.ts:190-196: deleteSession when type is "all", then clearSeenJobs,
\* which deletes the seen:* keys one at a time; a storage failure can leave the session
\* in place, or some of the seen ids behind
\* variant: the session is deleted whatever the type
PurgedSlot_always(type, slot) == NoSession

\* lines 192-194: the session slot after `if (type === "all") deleteSession()`
PurgedSlot(type, slot) == IF type = "all" THEN NoSession ELSE slot

PurgeCache ==
  /\ pc = "idle"
  /\ op' = "purge"
  /\ \E type \in {"cache", "all"} :
       \/ /\ type = "all"                      \* deleteSession failed
          /\ purge' = [ type |-> type, ok |-> FALSE ]
          /\ UNCHANGED << sessionSlot, seen >>
       \/ /\ sessionSlot' = PurgedSlot(type, sessionSlot)
          /\ \E left \in SUBSET seen, ok \in BOOLEAN :
               /\ ok => left = {}
               /\ seen' = left
               /\ purge' = [ type |-> type, ok |-> ok ]
  /\ prevOutcome' = "none"
  /\ notified' = {}
  /\ notifiedBefore' = {}
  /\ UNCHANGED << runStore, jobStore, scoreStore, inputVars, requestVars, scrapeVars,
                  stageVars, runLocals, loginCount, session, idx, called, outcome, pc >>
  /\ UNCHANGED << opCount, forceReauth, authLocals, hasSince, retryFailed, authError,
                  extractVars, slot0, prevScraped, prevSaved, prevPersisted, usePrefilter,
                  scoreStore0, historyVars, runId, criteriaId, storedJobs, seen0, jobStore0,
                  savedFor, lockVars >>

\* ------------------------------------------------------- stand-alone use-case calls
\* the locals of an earlier call are gone when the next call begins
NoScrapeLocals ==
  /\ scrapedJobs' = << >>
  /\ seenJobIds' = {}
  /\ newJobs' = << >>
  /\ savedJobs' = << >>
  /\ persisted' = << >>

NoExtractLocals ==
  /\ rawJobs' = << >>
  /\ succeeded' = {}
  /\ extractLog' = << >>
  /\ processedJobs' = << >>
  /\ attempt' = 0

\* a new call begins: what the previous scrapeJobs call did is kept for comparison
StartCall(name) ==
  /\ pc = "idle"
  /\ opCount < MaxOps
  /\ opCount' = opCount + 1
  /\ op' = name
  /\ called' = {}
  /\ session' = NoSession
  /\ authError' = ""
  /\ sessionExpired' = FALSE
  /\ liveCheck' = "none"
  /\ slot0' = sessionSlot
  /\ scoreStore0' = scoreStore
  /\ seen0' = seen
  /\ jobStore0' = jobStore
  /\ failure' = NoFailure
  /\ purge' = NoPurge
  /\ runId' = IF name = "sendLast" THEN "replay" ELSE "none"
  /\ storedJobs' = << >>
  /\ IF op = "scrape"
       THEN /\ prevScraped' = scrapedJobs
            /\ prevSaved' = savedJobs
            /\ prevPersisted' = persisted
            /\ prevOutcome' = outcome
       ELSE UNCHANGED << prevScraped, prevSaved, prevPersisted, prevOutcome >>
  /\ UNCHANGED << storageVars, inputVars, keywordsOk, runLocals, loginCount,
                  notified, notifiedBefore, savedFor, lockVars >>

\* no scoreJobs or sendNotifications call has been made
NoLaterLocals ==
  /\ jobScore' = NoJobScore
  /\ scoredJobs' = << >>
  /\ scoreLog' = << >>
  /\ notifyLog' = << >>
  /\ UNCHANGED << sendAlerts, usePrefilter >>

\* job-hunter-service.ts:47: authenticate(forceReauth)
AuthStart ==
  /\ StartCall("authenticate")
  /\ \E f \in BOOLEAN : forceReauth' = f
  /\ NoScrapeLocals
  /\ NoExtractLocals
  /\ idx' = 0
  /\ outcome' = "none"
  /\ pc' = IF forceReauth' THEN "login" ELSE "getSession"
  /\ NoLaterLocals
  /\ UNCHANGED << hasSince, retryFailed, criteriaId >>

\* scrape-jobs.ts:19-22: scrapeJobs({criteria, session, runId, since?})
ScrapeStart ==
  /\ StartCall("scrape")
  /\ \E b \in BOOLEAN : hasSince' = b
  /\ NoScrapeLocals
  /\ NoExtractLocals
  /\ idx' = 0
  /\ outcome' = "none"
  /\ pc' = "getJobsByCriteria"
  /\ NoLaterLocals
  /\ UNCHANGED << forceReauth, retryFailed, criteriaId >>

\* process-jobs: processJobs({rawJobs, retryFailed}); Effect.forEach over no items
\* returns at once
ProcessStart ==
  /\ StartCall("process")
  /\ \E raw \in SeqsUpTo(JobIds, MaxRaw) : rawJobs' = raw
  /\ \E r \in BOOLEAN : retryFailed' = r
  /\ NoScrapeLocals
  /\ NoLaterLocals
  /\ succeeded' = {}
  /\ extractLog' = << >>
  /\ processedJobs' = << >>
  /\ idx' = 1
  /\ attempt' = 0
  /\ pc' = IF rawJobs' = << >> THEN "idle" ELSE "extractJobData"
  /\ outcome' = IF rawJobs' = << >> THEN "returned" ELSE "none"
  /\ UNCHANGED << forceReauth, hasSince, criteriaId >>

\* score-jobs: scoreJobs({jobs, cvContent, cvVersion, minScore, usePrefilter}), the one
\* call of a process; Effect.forEach over no jobs returns at once
ScoreStart ==
  /\ op = "none"
  /\ StartCall("score")
  /\ \E jobs \in SeqsUpTo(JobIds, MaxJobs) : processedJobs' = jobs
  /\ \E u \in BOOLEAN : usePrefilter' = u
  /\ NoScrapeLocals
  /\ rawJobs' = << >>
  /\ succeeded' = {}
  /\ extractLog' = << >>
  /\ attempt' = 0
  /\ jobScore' = NoJobScore
  /\ scoredJobs' = << >>
  /\ scoreLog' = << >>
  /\ notifyLog' = << >>
  /\ idx' = 1
  /\ pc' = IF processedJobs' = << >> THEN "idle" ELSE "getJobScores"
  /\ outcome' = IF processedJobs' = << >> THEN "returned" ELSE "none"
  /\ UNCHANGED << forceReauth, hasSince, retryFailed, sendAlerts, criteriaId >>

\* the jobs a caller can hand to sendNotifications: Job.score is optional
NotifyJobs == [ job : JobIds, score : {NoScore, MinScore, AlertThreshold} ]

\* send-notifications: sendNotifications({jobs, runId, criteria, sendAlerts,
\* alertThreshold}); if (request.jobs.length === 0) return
NotifyStart ==
  /\ StartCall("notify")
  /\ \E jobs \in SeqsUpTo(NotifyJobs, MaxJobs) : scoredJobs' = jobs
  /\ \E a \in BOOLEAN : sendAlerts' = a
  /\ NoScrapeLocals
  /\ NoExtractLocals
  /\ jobScore' = NoJobScore
  /\ scoreLog' = << >>
  /\ notifyLog' = << >>
  /\ idx' = 0
  /\ pc' = IF scoredJobs' = << >> THEN "idle" ELSE "sendJobDigest"
  /\ outcome' = IF scoredJobs' = << >> THEN "returned" ELSE "none"
  /\ UNCHANGED << forceReauth, hasSince, retryFailed, usePrefilter, criteriaId >>

\* ------------------------------------------------------------ specification
Next ==
  \/ RunStart
  \/ SaveInitialRun
  \/ GetSession
  \/ IsLoggedIn
  \/ DeleteSession
  \/ Login
  \/ SaveSession
  \/ GetJobsByCriteria
  \/ ScrapeJobs
  \/ GetSeenJobIds
  \/ SaveJob
  \/ MarkJobAsSeen
  \/ SaveRun1
  \/ ExtractJobData
  \/ SaveRun2
  \/ GetJobScores
  \/ PrefilterJob
  \/ ScoreJob
  \/ SaveJobScore
  \/ SaveRun3
  \/ Notify
  \/ SendJobDigest
  \/ SendJobAlert
  \/ SaveCompletedRun
  \/ CatchFailed

Spec == Init /\ [][Next]_vars

\* ---------------------------------------------- the use cases called on their own
\* storage as earlier invocations left it; no run has notified anything
InitService == Init /\ notifiedBefore = {}

\* authenticate(forceReauth) calls and purges
NextAuth ==
  \/ AuthStart
  \/ GetSession
  \/ IsLoggedIn
  \/ DeleteSession
  \/ Login
  \/ SaveSession
  \/ PurgeCache

SpecAuth == InitService /\ [][NextAuth]_vars

\* scrapeJobs calls and purges
NextScrape ==
  \/ ScrapeStart
  \/ GetJobsByCriteria
  \/ ScrapeJobs
  \/ GetSeenJobIds
  \/ SaveJob
  \/ MarkJobAsSeen
  \/ PurgeCache

SpecScrape == InitService /\ [][NextScrape]_vars

\* processJobs calls
NextProcess ==
  \/ ProcessStart
  \/ ExtractJobData

SpecProcess == InitService /\ [][NextProcess]_vars

\* the JobScore records earlier invocations can have left: a score below or above the
\* minimum, the current or an earlier profile version, younger than 24 hours or not
StoredScores == [ score : {MinScore - 1, AlertThreshold}, cvVersion : CvVersions,
                  recent : BOOLEAN ]

\* records are stored in the order they were scored: none is younger than a later one
InScoredOrder(stored) ==
  \A i \in 1..Len(stored) : \A k \in i..Len(stored) : stored[i].recent => stored[k].recent

RECURSIVE StoredCount(_, _)
StoredCount(store, n) == IF n = 0 THEN 0 ELSE Len(store[n]) + StoredCount(store, n - 1)

\* a process whose one call is a stand-alone scoreJobs call
InitScore ==
  /\ scoreStore \in { store \in [ JobIds -> SeqsUpTo(StoredScores, MaxStored) ] :
                        /\ StoredCount(store, MaxJobId) <= MaxStored
                        /\ \A j \in JobIds : InScoredOrder(store[j]) }
  /\ lockFile = NoFile
  /\ pidFile = NoFile
  /\ InitProgram
  /\ InitCriteria
  /\ sessionSlot = NoSession
  /\ seen = {}

NextScore ==
  \/ ScoreStart
  \/ GetJobScores \/ PrefilterJob \/ ScoreJob \/ SaveJobScore

SpecScore == InitScore /\ [][NextScore]_vars

\* ------------------------------------------------ sendLastResults(criteria)
\* the scores a stored Job can carry: Job.score is optional
StoredJobScores == {NoScore, MinScore - 1, MinScore}

\* the answers of storage.getJobsByCriteria: every stored job, in key order, each with
\* the score of its record.  saveJob is called by scrapeJobs only, before the job is
\* scored, so a store that only this program wrote holds jobs without a score.
StoredJobRecords(store) ==
  { [ i \in 1..Len(StoredJobs(store)) |-> [ job |-> StoredJobs(store)[i], score |-> sc[StoredJobs(store)[i]] ] ] :
      sc \in [ store -> StoredJobScores ] }

\* variant: every stored job is handed on
ReplayJobs_unfiltered(jobs) == jobs

\* job-hunter-service.ts:159: jobs.filter((job) => (job.score ?? 0) >= 70)
ReplayJobs(jobs) == HighScoreJobs(jobs, 70)

\* job-hunter-service.ts:156-157: sendLastResults(criteria)
SendLastStart ==
  /\ StartCall("sendLast")
  /\ \E c \in Criteria : criteriaId' = c
  /\ NoScrapeLocals
  /\ NoExtractLocals
  /\ NoLaterLocals
  /\ idx' = 0
  /\ outcome' = "none"
  /\ pc' = "getStoredJobs"
  /\ UNCHANGED << forceReauth, hasSince, retryFailed >>

\* lines 158-166: storage.getJobsByCriteria(criteria.id), whose StorageError is passed on
\* as it is; the filter; the request, whose criteria.keywords.join throws when keywords
\* is missing; sendNotifications with sendAlerts false, which returns at once for an
\* empty list
GetStoredJobs ==
  /\ pc = "getStoredJobs"
  /\ Call("getJobsByCriteria")
  /\ \/ \E jobs \in StoredJobRecords(jobStore), k \in BOOLEAN :
          /\ storedJobs' = jobs
          /\ keywordsOk' = k
          /\ IF k
               THEN /\ scoredJobs' = ReplayJobs(jobs)
                    /\ IF scoredJobs' = << >>
                         THEN Return("saveCompleted")
                         ELSE pc' = "sendJobDigest" /\ UNCHANGED outcome
                    /\ UNCHANGED thrown
               ELSE /\ thrown' = TypeErrorMessage
                    /\ Abandon
                    /\ UNCHANGED scoredJobs
          /\ UNCHANGED failure
     \/ /\ Abandon
        /\ failure' = "DATABASE_ERROR"
        /\ UNCHANGED << storedJobs, keywordsOk, scoredJobs, thrown >>
  /\ sendAlerts' = FALSE
  /\ UNCHANGED << storageVars, inputVars, scrapeVars, attempt, processedJobs,
                  jobScore, run, updatedRun, writes, result, loginCount, session, idx >>
  /\ UNCHANGED << op, opCount, forceReauth, hasSince, retryFailed, usePrefilter, purge, runId,
                  criteriaId, authLocals, pastVars, lockVars, scoreLog, notifyLog, authError,
                  extractVars, notified >>

\* the store holds jobs saved by scrapeJobs calls made for either criteria
InitSend ==
  /\ scoreStore = [ j \in JobIds |-> << >> ]
  /\ lockFile = NoFile
  /\ pidFile = NoFile
  /\ InitProgram
  /\ notifiedBefore = {}
  /\ savedFor \in { f \in [ JobIds -> Criteria \cup {NoCriteria} ] :
                       \A j \in JobIds : f[j] = NoCriteria <=> j \notin jobStore }

NextSend ==
  \/ SendLastStart
  \/ GetStoredJobs
  \/ SendJobDigest

SpecSend == InitSend /\ [][NextSend]_vars

\* ------------------------------------------------ cli: the instance lock
\* cli/index.ts:88-96: process.kill(pid, 0) succeeds for a process that exists
IsProcessRunning(pid) == pid \in Procs /\ proc[pid].pc \notin {"off", "done"}

\* process p goes to `step`
Goto(p, step) == proc' = [ proc EXCEPT ![p].pc = step ]

\* releaseLock is called; the process goes on at `after` when it returns
Release(p, after) == proc' = [ proc EXCEPT ![p].pc = "releaseLock", ![p].after = after ]

\* the command of process p ends as `how`: releaseLock is called, and the process goes
\* on at `after`
EndsAs(p, how, after) ==
  proc' = [ proc EXCEPT ![p].pc = "releaseLock", ![p].after = after, ![p].how = how ]

\* a command is invoked: its action begins with checkAndAcquireLock (line 180)
LockStart(p) ==
  /\ proc[p].pc = "off"
  /\ Goto(p, "existsSync")
  /\ UNCHANGED << lockFile, pidFile, programVars >>

\* acquireLock, line 42: existsSync(LOCK_FILE)
LockExists(p) ==
  /\ proc[p].pc = "existsSync"
  /\ Goto(p, IF lockFile # NoFile THEN "readFileSync" ELSE "writeLock")
  /\ UNCHANGED << lockFile, pidFile, programVars >>

\* lines 44-45 and 51-54: JSON.parse(readFileSync(LOCK_FILE)); a file that is gone by
\* now or cannot be parsed throws, and the catch block calls releaseLock
LockRead(p) ==
  /\ proc[p].pc = "readFileSync"
  /\ IF lockFile \in {NoFile, Corrupt}
       THEN Release(p, "writeLock")
       ELSE proc' = [ proc EXCEPT ![p].pc = "isProcessRunning", ![p].pid = lockFile ]
  /\ UNCHANGED << lockFile, pidFile, programVars >>

\* lines 46-50: a live owner makes acquireLock return false, a stale lock is cleaned up
LockAlive(p) ==
  /\ proc[p].pc = "isProcessRunning"
  /\ IF proc[p].pid > 0 /\ IsProcessRunning(proc[p].pid)
       THEN proc' = [ proc EXCEPT ![p].pc = "refused", ![p].pid = NoFile, ![p].how = "held" ]
       ELSE proc' = [ proc EXCEPT ![p].pc = "releaseLock", ![p].pid = NoFile,
                                  ![p].after = "writeLock" ]
  /\ UNCHANGED << lockFile, pidFile, programVars >>

\* releaseLock, line 77: existsSync(LOCK_FILE)
ReleaseLock(p) ==
  /\ proc[p].pc = "releaseLock"
  /\ Goto(p, IF lockFile # NoFile THEN "unlinkLock" ELSE "existsPid")
  /\ UNCHANGED << lockFile, pidFile, programVars >>

\* releaseLock, line 78: unlinkSync(LOCK_FILE); it throws when the file is gone by now,
\* and the catch block of lines 83-85 ends releaseLock with the pid file untouched
UnlinkLock(p) ==
  /\ proc[p].pc = "unlinkLock"
  /\ lockFile' = NoFile
  /\ Goto(p, IF lockFile # NoFile THEN "existsPid" ELSE proc[p].after)
  /\ UNCHANGED << pidFile, programVars >>

\* releaseLock, line 80: existsSync(PID_FILE)
ExistsPid(p) ==
  /\ proc[p].pc = "existsPid"
  /\ Goto(p, IF pidFile # NoFile THEN "unlinkPid" ELSE proc[p].after)
  /\ UNCHANGED << lockFile, pidFile, programVars >>

\* releaseLock, line 81: unlinkSync(PID_FILE)
UnlinkPid(p) ==
  /\ proc[p].pc = "unlinkPid"
  /\ pidFile' = NoFile
  /\ Goto(p, proc[p].after)
  /\ UNCHANGED << lockFile, programVars >>

\* lines 57-66 and 70-72: writeFileSync(LOCK_FILE, {pid, timestamp, command}); a write
\* that throws makes acquireLock return false
WriteLock(p) ==
  /\ proc[p].pc = "writeLock"
  /\ \/ lockFile' = p /\ Goto(p, "writePid")
     \/ UNCHANGED lockFile /\ proc' = [ proc EXCEPT ![p].pc = "refused", ![p].how = "lockFailed" ]
  /\ UNCHANGED << pidFile, programVars >>

\* lines 67-69: writeFileSync(PID_FILE, pid); return true: the command runs
WritePid(p) ==
  /\ proc[p].pc = "writePid"
  /\ \/ pidFile' = p /\ Goto(p, "running")
     \/ UNCHANGED pidFile /\ proc' = [ proc EXCEPT ![p].pc = "refused", ![p].how = "lockFailed" ]
  /\ UNCHANGED << lockFile, programVars >>

\* process.exit(code), node's lib/internal/process/per_thread.js: process.exitCode = code,
\* then the "exit" event is emitted unless the process is exiting already; the "exit"
\* handler registered at line 131 is cleanup (lines 124-127), which calls releaseLock
ProcessExit(p, code) ==
  proc' = [ proc EXCEPT ![p].pc = "releaseLock", ![p].after = "cleanupExit", ![p].code = code ]

\* checkAndAcquireLock, lines 157-169: process.exit(20)
LockRefused(p) ==
  /\ proc[p].pc = "refused"
  /\ ProcessExit(p, 20)
  /\ UNCHANGED << lockFile, pidFile, programVars >>

\* the command's action returns (lines 212-215, 271-276): nothing is left to run, and
\* node emits "exit" with code 0, which runs cleanup
CommandSucceeds(p) ==
  /\ proc[p].pc = "running"
  /\ proc' = [ proc EXCEPT ![p].pc = "releaseLock", ![p].after = "cleanupExit",
                           ![p].how = "success", ![p].code = 0 ]
  /\ UNCHANGED << lockFile, pidFile, programVars >>

\* the failure branches of a command: "configOrAuth" when the configuration does not
\* load (lines 188-193, 239-244) or the auth command fails to authenticate (lines
\* 216-221), "command" when the criteria id is unknown (lines 247-252) or the use case
\* fails (lines 277-282)
Failures == {"configOrAuth", "command"}

\* the exit code each failure branch passes to process.exit
FailureCode(how) == IF how = "configOrAuth" THEN 10 ELSE 1

\* a failure branch of a command: instanceManager.releaseLock(), then process.exit(n)
CommandFails(p) ==
  /\ proc[p].pc = "running"
  /\ \E how \in Failures : EndsAs(p, how, "processExit")
  /\ UNCHANGED << lockFile, pidFile, programVars >>

\* SIGINT or SIGTERM arrives (lines 129-130), or an exception is not caught or a
\* rejection not handled (lines 132-142): cleanup runs, that is releaseLock and then
\* process.exit(0); the process.exit(1) of lines 135 and 141 is never reached
Interrupted(p) ==
  /\ proc[p].pc = "running"
  /\ EndsAs(p, "interrupted", "processExit")
  /\ UNCHANGED << lockFile, pidFile, programVars >>

\* the process.exit that follows the releaseLock of a failure branch or of cleanup
Exits(p) ==
  /\ proc[p].pc = "processExit"
  /\ ProcessExit(p, IF proc[p].how \in Failures THEN FailureCode(proc[p].how) ELSE 0)
  /\ UNCHANGED << lockFile, pidFile, programVars >>

\* cleanup, line 126, run by the "exit" event: process.exit(0) sets process.exitCode to
\* 0 and, the process being in its exit already, ends it with that code
CleanupExit(p) ==
  /\ proc[p].pc = "cleanupExit"
  /\ proc' = [ proc EXCEPT ![p].pc = "done", ![p].code = 0 ]
  /\ UNCHANGED << lockFile, pidFile, programVars >>

\* the process is killed where no handler runs (SIGKILL, power loss)
Killed(p) ==
  /\ proc[p].pc = "running"
  /\ proc' = [ proc EXCEPT ![p].pc = "done", ![p].how = "killed" ]
  /\ UNCHANGED << lockFile, pidFile, programVars >>

\* no lock, or the files of a process that was killed, or a lock file that is not a
\* lock record
InitLock ==
  /\ scoreStore = [ j \in JobIds |-> << >> ]
  /\ \E left \in {NoFile, DeadPid, Corrupt} :
       /\ lockFile = left
       /\ pidFile = IF left = NoFile THEN NoFile ELSE DeadPid
  /\ InitProgram
  /\ InitCriteria
  /\ sessionSlot = NoSession
  /\ seen = {}

NextLock ==
  \E p \in Procs :
    \/ LockStart(p)
    \/ LockExists(p)
    \/ LockRead(p)
    \/ LockAlive(p)
    \/ ReleaseLock(p)
    \/ UnlinkLock(p)
    \/ ExistsPid(p)
    \/ UnlinkPid(p)
    \/ WriteLock(p)
    \/ WritePid(p)
    \/ LockRefused(p)
    \/ CommandSucceeds(p)
    \/ CommandFails(p)
    \/ Interrupted(p)
    \/ Exits(p)
    \/ CleanupExit(p)
    \/ Killed(p)

SpecLock == InitLock /\ [][NextLock]_vars

\* stand-alone sendNotifications calls
NextNotify ==
  \/ NotifyStart
  \/ SendJobDigest \/ SendJobAlert

SpecNotify == InitService /\ [][NextNotify]_vars

\* ------------------------------------------------------------------ properties
Terminal(status) == status \in {"COMPLETED", "FAILED"}
Counts(r) == << r.jobsFound, r.jobsProcessed, r.jobsScored >>
Started == runCount >= 1
\* the record stored under the current run id
Stored == runStore[runCount]
LastWrite == writes[Len(writes)]
LlmAndNotifierCalls ==
  {"extractJobData", "prefilterJob", "scoreJob", "saveJobScore", "sendJobDigest", "sendJobAlert"}
\* scrapeJobs has returned its list to runJobDiscovery
ScrapeReturned == pc = "saveRun1" \/ Len(writes) >= 2

\* C1: when a stage fails after the initial JobRun was persisted, the record stored
\* for the run when the error reaches the caller has status FAILED and carries the
\* failure's message in its errors list.
C1_FailurePersistsFailed ==
  (Started /\ outcome = "failed" /\ writes # << >>) =>
    (Stored.status = "FAILED" /\ Stored.errors # << >>)

\* C2: a FAILED record is written with the jobsFound, jobsProcessed and jobsScored of
\* the record written just before it for the same run.
C2_FailedKeepsCounts ==
  \A i \in 2..Len(writes) :
    writes[i].status = "FAILED" => Counts(writes[i]) = Counts(writes[i - 1])

\* C3: when a dry run returns, the record stored for the run id has status COMPLETED
\* with jobsFound set.
C3_DryRunStoredCompleted ==
  (Started /\ dryRun /\ outcome = "returned") =>
    (Stored.status = "COMPLETED" /\ Stored.jobsFound = Len(savedJobs))

\* C4: the statuses written for a run start with RUNNING, and a terminal status
\* (COMPLETED or FAILED) is only ever the last write: nothing is written for the run
\* after it, and the stored record is that last write.
C4_StatusMonotonic ==
  writes # << >> =>
    /\ writes[1].status = "RUNNING"
    /\ \A i \in 1..Len(writes) :
         /\ writes[i].id = runCount
         /\ writes[i].status \in {"RUNNING", "COMPLETED", "FAILED"}
         /\ Terminal(writes[i].status) => i = Len(writes)
    /\ Stored = LastWrite

C4_Witness ==
  /\ Len(writes) = 5
  /\ LastWrite.status = "FAILED"
  /\ pc = "idle"

\* C5: across the successive records written for one run, the final write included,
\* jobsFound, jobsProcessed and jobsScored never decrease.
C5_CountsMonotonic ==
  \A i \in 1..(Len(writes) - 1) :
    /\ writes[i].jobsFound <= writes[i + 1].jobsFound
    /\ writes[i].jobsProcessed <= writes[i + 1].jobsProcessed
    /\ writes[i].jobsScored <= writes[i + 1].jobsScored

\* C6: no collaborator other than saveJobRun is called before the first saveJobRun
\* has completed, and that first record is RUNNING with zero counts and no errors.
C6_InitialRunSavedFirst ==
  (called \ {"saveJobRun"} # {}) =>
    /\ writes # << >>
    /\ writes[1].id = runCount
    /\ writes[1].status = "RUNNING"
    /\ Counts(writes[1]) = << 0, 0, 0 >>
    /\ writes[1].errors = << >>
    /\ ~writes[1].completed

C6_Witness ==
  /\ "login" \in called
  /\ pc = "saveSession"
  /\ Stored.status = "RUNNING"

\* C7: in a non-dry run the record with jobsFound is saved before the first
\* extractJobData call, the record with jobsProcessed before the first getJobScores,
\* prefilterJob or scoreJob call, and the record with jobsScored before any digest or
\* alert is sent.
C7_StagePersistedBeforeNext ==
  /\ "extractJobData" \in called =>
       /\ Len(writes) >= 2
       /\ writes[2].status = "RUNNING"
       /\ writes[2].jobsFound = Len(savedJobs)
  /\ {"getJobScores", "prefilterJob", "scoreJob"} \cap called # {} =>
       /\ Len(writes) >= 3
       /\ writes[3].status = "RUNNING"
       /\ Counts(writes[3]) = << Len(savedJobs), Len(processedJobs), 0 >>
  /\ {"sendJobDigest", "sendJobAlert"} \cap called # {} =>
       /\ Len(writes) >= 4
       /\ writes[4].status = "RUNNING"
       /\ Counts(writes[4]) = << Len(savedJobs), Len(processedJobs), Len(scoredJobs) >>

C7_Witness ==
  /\ "sendJobAlert" \in called
  /\ Len(savedJobs) = 2
  /\ Len(processedJobs) = 1
  /\ Len(scoredJobs) = 1

\* C8: a non-dry run that returns hands back a COMPLETED record equal to the last
\* record persisted for the run, whose jobsFound, jobsProcessed and jobsScored are
\* the lengths of the scrape, extraction and scoring results, so
\* jobsScored <= jobsProcessed <= jobsFound.
C8_CompletedRunReturned ==
  (Started /\ ~dryRun /\ outcome = "returned") =>
    /\ result.status = "COMPLETED"
    /\ result.completed
    /\ result.errors = << >>
    /\ result = Stored
    /\ result = LastWrite
    /\ result.jobsFound = Len(persisted)
    /\ result.jobsFound = Len(savedJobs)
    /\ result.jobsProcessed = Len(processedJobs)
    /\ result.jobsScored = Len(scoredJobs)
    /\ result.jobsScored <= result.jobsProcessed
    /\ result.jobsProcessed <= result.jobsFound

C8_Witness ==
  /\ ~dryRun
  /\ outcome = "returned"
  /\ Counts(result) = << 2, 1, 1 >>

\* C9: a dry run calls none of extractJobData, prefilterJob, scoreJob, saveJobScore,
\* sendJobDigest, sendJobAlert (nor getJobScores); every record it saves or returns
\* has jobsProcessed = 0 and jobsScored = 0, and it stops after the save that follows
\* scraping.
C9_DryRunStopsAfterScrape ==
  (Started /\ dryRun) =>
    /\ called \cap (LlmAndNotifierCalls \cup {"getJobScores"}) = {}
    /\ \A i \in 1..Len(writes) : writes[i].jobsProcessed = 0 /\ writes[i].jobsScored = 0
    /\ Len(writes) <= 2
    /\ Len(writes) = 2 => pc = "idle"
    /\ outcome = "returned" =>
         /\ result.jobsFound = Len(savedJobs)
         /\ result.jobsProcessed = 0
         /\ result.jobsScored = 0

C9_Witness ==
  /\ dryRun
  /\ outcome = "returned"
  /\ result.jobsFound = 2

\* C10: when scrapeJobs returns after invoking the scraper, the jobs it persisted with
\* saveJob and the jobs it returns are exactly the scraped jobs whose id was not in
\* the seen-set it loaded, in scraper order; while it runs, no job whose id is in
\* that seen-set is persisted.
C10_ScrapeDeduplicates ==
  /\ \A i \in 1..Len(persisted) : persisted[i] \notin seenJobIds
  /\ ScrapeReturned =>
       /\ savedJobs = SelectSeq(scrapedJobs, LAMBDA j : j \notin seenJobIds)
       /\ persisted = savedJobs

\* seen = {job-1}, the scraper returns job-1 and job-2: only job-2 is persisted
C10_Witness ==
  /\ pc = "saveRun1"
  /\ seenJobIds = {1}
  /\ scrapedJobs = << 1, 2 >>
  /\ persisted = << 2 >>
  /\ savedJobs = << 2 >>

\* ------------------------------------------------- properties of scrapeJobs calls
\* the current stand-alone scrapeJobs call has got the scraper's answer
ScraperAnswered ==
  /\ op = "scrape"
  /\ "scrapeJobs" \in called
  /\ outcome = "failed" => "getSeenJobIds" \in called
\* the current stand-alone scrapeJobs call has returned its list
ScrapeCallReturned == op = "scrape" /\ pc = "idle" /\ outcome = "returned"

\* C11: when a scrapeJobs call returned and the next call (with a since cutoff, no purge
\* in between) gets the same list from the scraper, that call hands nothing to saveJob
\* or markJobAsSeen, and when it returns it returns the empty list; it can only fail
\* through its read of the seen-set.
C11_SecondScrapePersistsNothing ==
  (ScraperAnswered /\ hasSince /\ prevOutcome = "returned" /\ scrapedJobs = prevScraped) =>
    /\ persisted = << >>
    /\ savedJobs = << >>
    /\ called \cap {"saveJob", "markJobAsSeen"} = {}
    /\ "getSeenJobIds" \in called /\ outcome # "failed" =>
         /\ ScrapeCallReturned
         /\ seen = seenJobIds
         /\ newJobs = << >>

\* both calls get jobs 1 and 2 from the scraper; the first persisted some, the second none
C11_Witness ==
  /\ ScrapeCallReturned
  /\ hasSince
  /\ prevOutcome = "returned"
  /\ prevScraped = << 1, 2 >>
  /\ prevPersisted # << >>
  /\ scrapedJobs = << 1, 2 >>
  /\ "getSeenJobIds" \in called
  /\ savedJobs = << >>

NoRepeats(list) == \A i, j \in 1..Len(list) : list[i] = list[j] => i = j

\* C12: the list returned by one scrapeJobs call never contains two jobs with the same
\* id, also when the scraper's list repeats an id.
C12_NoJobTwiceInResult ==
  ScrapeCallReturned => NoRepeats(savedJobs)

Range(list) == { list[i] : i \in 1..Len(list) }
\* the previous scrapeJobs call ended between saveJob and markJobAsSeen of one job
PrevStoppedBetweenWrites ==
  prevOutcome = "failed" /\ Len(prevPersisted) = Len(prevSaved) + 1
\* that job
PrevUnmarked == prevPersisted[Len(prevPersisted)]

\* C13: an id is in the seen-set only if the job is in the job store; when a scrapeJobs
\* call ends between saveJob and markJobAsSeen of job B, the jobs it had saved before
\* are stored and seen and B is stored; a later call that gets B from the scraper while
\* B is unseen hands B to saveJob again, and the store holds B under its one key.
C13_SavedBeforeSeen ==
  /\ seen \subseteq jobStore
  /\ (op = "scrape" /\ pc = "idle" /\ outcome = "failed"
        /\ Len(persisted) = Len(savedJobs) + 1) =>
       /\ Range(savedJobs) \subseteq seen
       /\ Range(persisted) \subseteq jobStore
  /\ (PrevStoppedBetweenWrites /\ ScrapeCallReturned /\ "scrapeJobs" \in called
        /\ PrevUnmarked \in Range(scrapedJobs) /\ PrevUnmarked \notin seenJobIds) =>
       /\ Range(prevSaved) \subseteq seenJobIds
       /\ Range(prevPersisted) \subseteq jobStore
       /\ PrevUnmarked \in Range(persisted)
       /\ PrevUnmarked \in seen

\* the first call saved 1 and 2 and failed to mark 2; the second gets 2 again and saves it
C13_Witness ==
  /\ PrevStoppedBetweenWrites
  /\ prevSaved = << 1 >>
  /\ prevPersisted = << 1, 2 >>
  /\ ScrapeCallReturned
  /\ scrapedJobs = << 1, 2 >>
  /\ seenJobIds = {1}
  /\ persisted = << 2 >>
  /\ jobStore = {1, 2}

C15_SeenOnlyGrows ==
  [][ \/ PurgeCache
      \/ /\ seen \subseteq seen'
         /\ (pc = "markJobAsSeen" /\ newJobs[idx] \in seen) => seen' = seen ]_vars

\* the scraper repeated job 1, so its second markJobAsSeen met an id already seen
C15_Witness ==
  /\ op = "scrape"
  /\ seenJobIds = {2}
  /\ persisted = << 1, 1 >>
  /\ savedJobs = << 1, 1 >>
  /\ seen = {1, 2}

\* ------------------------------------------------- properties of authenticate calls
\* C16: authenticate(forceReauth = false) whose stored session passes the live check
\* returns that session, having called only getSession and isLoggedIn; the session slot
\* is what it was when the call began.
C16_AcceptedSessionReturned ==
  (op = "authenticate" /\ ~forceReauth /\ liveCheck = "accepted") =>
    /\ pc = "idle"
    /\ outcome = "returned"
    /\ session = slot0
    /\ session # NoSession
    /\ sessionSlot = slot0
    /\ called = {"getSession", "isLoggedIn"}

C16_Witness ==
  /\ op = "authenticate"
  /\ ~forceReauth
  /\ liveCheck = "accepted"
  /\ session = 1
  /\ sessionSlot = 1
  /\ loginCount = 1

\* C17: whenever authenticate (forceReauth = false) calls scraper.login, it has called
\* storage.deleteSession before; on success the new session was saved after the login,
\* is in the slot and is the value returned.
C17_DeleteBeforeEveryLogin ==
  (op = "authenticate" /\ ~forceReauth) =>
    /\ "login" \in called => "deleteSession" \in called
    /\ pc = "deleteSession" => "login" \notin called
    /\ pc = "saveSession" => "login" \in called
    /\ (outcome = "returned" /\ "login" \in called) =>
         /\ "saveSession" \in called
         /\ session = loginCount
         /\ sessionSlot = session

\* C17 as the code has it: deleteSession is called, before the login, exactly when the
\* live check rejected the stored session; with no stored session, or with forceReauth,
\* login is called without it.  On success the new session was saved after the login,
\* is in the slot and is the value returned.
C17_DeleteBeforeLoginWhenRejected ==
  op = "authenticate" =>
    /\ "login" \in called => ("deleteSession" \in called <=> liveCheck = "rejected")
    /\ ("login" \in called /\ liveCheck = "none") => (forceReauth \/ slot0 = NoSession)
    /\ pc = "deleteSession" => "login" \notin called
    /\ pc = "saveSession" => "login" \in called
    /\ (outcome = "returned" /\ "login" \in called) =>
         /\ "saveSession" \in called
         /\ session = loginCount
         /\ session # slot0
         /\ sessionSlot = session

\* session 1 was rejected and deleted; session 2 from the login is stored and returned
C17_Witness ==
  /\ op = "authenticate"
  /\ slot0 = 1
  /\ liveCheck = "rejected"
  /\ called = {"getSession", "isLoggedIn", "deleteSession", "login", "saveSession"}
  /\ outcome = "returned"
  /\ session = 2
  /\ sessionSlot = 2

\* C18: authenticate(forceReauth = false) returns the stored session only while its
\* expiresAt is still ahead; a stored session whose expiresAt has passed is never the
\* value returned.
C18_ExpiredSessionNotReturned ==
  (op = "authenticate" /\ ~forceReauth /\ outcome = "returned"
     /\ slot0 # NoSession /\ session = slot0) => ~sessionExpired

\* the collaborator call an authenticate call made last
LastAuthCall ==
  IF "saveSession" \in called THEN "saveSession"
  ELSE IF "login" \in called THEN "login"
  ELSE IF "deleteSession" \in called THEN "deleteSession"
  ELSE IF "isLoggedIn" \in called THEN "isLoggedIn"
  ELSE "getSession"

\* C19: saveSession is called only after scraper.login succeeded, with the session login
\* returned; when authenticate fails, the slot holds the session it held when the call
\* began or nothing, and the error is an AuthenticateError of type STORAGE_ERROR for a
\* getSession, deleteSession or saveSession failure, SCRAPING_ERROR for an isLoggedIn
\* failure and AUTH_FAILED for a login failure.
C19_NoPartialSession ==
  op = "authenticate" =>
    /\ pc = "saveSession" =>
         /\ "login" \in called
         /\ session = loginCount
         /\ session # NoSession
    /\ "saveSession" \in called => "login" \in called
    /\ sessionSlot \notin {slot0, NoSession} =>
         /\ outcome = "returned"
         /\ sessionSlot = session
         /\ session = loginCount
    /\ outcome = "failed" =>
         /\ sessionSlot \in {slot0, NoSession}
         /\ authError = CASE LastAuthCall = "isLoggedIn" -> "SCRAPING_ERROR"
                           [] LastAuthCall = "login" -> "AUTH_FAILED"
                           [] OTHER -> "STORAGE_ERROR"
    /\ outcome # "failed" => authError = ""

\* the stored session was rejected and deleted, then the login failed: the slot is empty
C19_Witness ==
  /\ op = "authenticate"
  /\ outcome = "failed"
  /\ authError = "AUTH_FAILED"
  /\ slot0 = 1
  /\ sessionSlot = NoSession
  /\ "deleteSession" \in called

\* --------------------------------------------------- properties of processJobs calls
\* the items of `list` at the positions in `positions` up to n, in list order
RECURSIVE Picked(_, _, _)
Picked(list, positions, n) ==
  IF n = 0 THEN << >>
  ELSE IF n \in positions THEN Append(Picked(list, positions, n - 1), list[n])
  ELSE Picked(list, positions, n - 1)

\* C20: a processJobs call never fails; what it has collected is at every moment the
\* items whose extraction succeeded, in input order, and when it returns that is its
\* result, no longer than the input.
C20_ExtractionFaultTolerant ==
  op = "process" =>
    /\ outcome # "failed"
    /\ succeeded \subseteq 1..Len(rawJobs)
    /\ processedJobs = Picked(rawJobs, succeeded, Len(rawJobs))
    /\ Len(processedJobs) <= Len(rawJobs)
    /\ pc = "idle" => outcome = "returned"

\* three items, the second fails on the first attempt and on the retry
C20_Witness ==
  /\ op = "process"
  /\ retryFailed
  /\ rawJobs = << 2, 1, 1 >>
  /\ succeeded = {1, 3}
  /\ processedJobs = << 2, 1 >>
  /\ outcome = "returned"

\* C21: processJobs calls extractJobData for every raw item: at most twice when
\* retryFailed is true, exactly once when it is false.  A call is followed by another
\* call for the same item only when it failed, so an item that succeeded is not called
\* again, and with retryFailed an item whose calls all failed was called exactly twice.
C21_RetryOnceThenDrop ==
  op = "process" =>
    /\ Len(extractLog) <= Len(rawJobs)
    /\ outcome = "returned" => Len(extractLog) = Len(rawJobs)
    /\ \A i \in 1..Len(extractLog) :
         LET calls == extractLog[i]
         IN /\ IF retryFailed THEN Len(calls) \in {1, 2} ELSE Len(calls) = 1
            /\ \A k \in 1..(Len(calls) - 1) : calls[k] = "failed"
            /\ (i < idx /\ retryFailed /\ calls[Len(calls)] = "failed") => Len(calls) = 2

\* with retryFailed: one item failed twice and was dropped, one succeeded on the retry,
\* one succeeded at once
C21_Witness ==
  /\ op = "process"
  /\ retryFailed
  /\ outcome = "returned"
  /\ extractLog = << << "failed", "failed" >>, << "failed", "ok" >>, << "ok" >> >>
  /\ succeeded = {2, 3}

\* ---------------------------------------------------- properties of scoreJobs calls
\* the records the first n jobs of the current call have added to the store of `job`
RECURSIVE SavedBefore(_, _)
SavedBefore(job, n) ==
  IF n = 0 THEN << >>
  ELSE IF scoreLog[n].job = job /\ scoreLog[n].saved = "ok"
         THEN Append(SavedBefore(job, n - 1), FreshScore(scoreLog[n].score))
         ELSE SavedBefore(job, n - 1)

\* the stored records of the i-th job of the call at the time of its lookup
StoredAtLookup(i) == scoreStore0[scoreLog[i].job] \o SavedBefore(scoreLog[i].job, i - 1)

\* positions of the records with the requested profile version that are younger than 24h
Reusable(stored) ==
  { k \in 1..Len(stored) : stored[k].cvVersion = CvVersion /\ stored[k].recent }

Latest(S) == CHOOSE k \in S : \A m \in S : m <= k

\* scoreJobs is done with its i-th job
Handled(i) == i < Len(scoreLog) \/ (i = Len(scoreLog) /\ pc = "idle")

\* C22: for every job of a scoreJobs call whose stored scores could be read: when a
\* stored record has the requested profile version and is younger than 24 hours, no
\* prefilterJob, scoreJob or saveJobScore call is made for the job and the job is
\* returned with the score of the latest such record; when no stored record is of that
\* kind, scoreJob is called for the job unless the prefilter answered false.
C22_ScoreCacheFreshness ==
  op = "score" =>
    \A i \in 1..Len(scoreLog) :
      LET e == scoreLog[i]
          stored == StoredAtLookup(i)
      IN e.lookup # "failed" =>
           IF Reusable(stored) # {}
             THEN /\ e.lookup = "hit"
                  /\ e.prefilter = "none" /\ e.scoreJob = "none" /\ e.saved = "none"
                  /\ e.score = stored[Latest(Reusable(stored))].score
                  /\ outcome = "returned" =>
                       \E k \in 1..Len(scoredJobs) :
                         scoredJobs[k] = [ job |-> e.job, score |-> e.score ]
             ELSE /\ e.lookup = "miss"
                  /\ (Handled(i) /\ e.prefilter # "false") => e.scoreJob \in {"ok", "failed"}

\* job 1 has a reusable record and comes back with its score, below the minimum as it
\* is; the record of job 2 has the requested version but is a day old: scored afresh
C22_Witness ==
  /\ op = "score"
  /\ outcome = "returned"
  /\ processedJobs = << 1, 2 >>
  /\ scoreStore0[1] = << [ score |-> MinScore - 1, cvVersion |-> "1.0", recent |-> TRUE ] >>
  /\ scoreStore0[2] = << [ score |-> AlertThreshold, cvVersion |-> "1.0", recent |-> FALSE ] >>
  /\ scoreLog[1].lookup = "hit"
  /\ scoreLog[1].prefilter = "none"
  /\ scoreLog[2].lookup = "miss"
  /\ scoreLog[2].scoreJob = "ok"
  /\ Len(scoreStore[2]) = 2

\* C23: every job in the list a scoreJobs call returns carries a score of at least
\* minScore, whether the score was computed in the call or taken from a stored record.
C23_ReturnedMeetMinScore ==
  (op = "score" /\ outcome = "returned") =>
    \A k \in 1..Len(scoredJobs) : MeetsMinScore(scoredJobs[k].score, MinScore)

\* what the first n jobs of the call have contributed to the result, in order: a job
\* with a reused score, or a job whose fresh score was saved and reaches the minimum
RECURSIVE ResultOf(_)
ResultOf(n) ==
  IF n = 0 THEN << >>
  ELSE LET e == scoreLog[n]
       IN IF e.lookup = "hit" \/ (e.saved = "ok" /\ e.score >= MinScore)
            THEN Append(ResultOf(n - 1), [ job |-> e.job, score |-> e.score ])
            ELSE ResultOf(n - 1)

\* C24: when scoreJob returned a result for a job, scoreJobs hands it to saveJobScore
\* whatever its value, and a saved record is in the store; the job is part of the
\* result exactly when the fresh score is at least minScore (69 is stored and left
\* out, 70 is stored and included).  The store is what it was plus the saved records.
C24_FreshScoresSavedAndFiltered ==
  op = "score" =>
    /\ \A i \in 1..Len(scoreLog) :
         LET e == scoreLog[i]
         IN /\ (e.scoreJob = "ok" /\ Handled(i)) => e.saved \in {"ok", "failed"}
            /\ e.saved # "none" => e.scoreJob = "ok"
            /\ (e.saved = "failed" /\ Handled(i)) => outcome = "failed"
    /\ \A j \in JobIds : scoreStore[j] = scoreStore0[j] \o SavedBefore(j, Len(scoreLog))
    /\ scoredJobs = ResultOf(Len(scoreLog))

\* two jobs scored afresh: 69 is stored and left out, 70 is stored and returned
C24_Witness ==
  /\ op = "score"
  /\ outcome = "returned"
  /\ processedJobs = << 1, 2 >>
  /\ scoreLog[1].scoreJob = "ok" /\ scoreLog[1].score = MinScore - 1
  /\ scoreLog[2].scoreJob = "ok" /\ scoreLog[2].score = MinScore
  /\ scoreStore[1] = Append(scoreStore0[1], FreshScore(MinScore - 1))
  /\ scoreStore[2] = Append(scoreStore0[2], FreshScore(MinScore))
  /\ scoredJobs = << [ job |-> 2, score |-> MinScore ] >>

\* C25: in a scoreJobs call with usePrefilter, a job without a reusable score is dropped
\* with no scoreJob and no saveJobScore call exactly when prefilterJob answered false;
\* when prefilterJob answered true or failed, scoreJob is called for the job, and a
\* call never fails on account of the prefilter.
C25_PrefilterFailOpen ==
  op = "score" =>
    /\ \A i \in 1..Len(scoreLog) :
         LET e == scoreLog[i]
         IN /\ e.prefilter # "none" => (usePrefilter /\ e.lookup = "miss")
            /\ e.prefilter = "false" => (e.scoreJob = "none" /\ e.saved = "none")
            /\ (usePrefilter /\ e.lookup = "miss" /\ Handled(i)) =>
                 /\ e.prefilter \in {"true", "false", "failed"}
                 /\ e.scoreJob = "none" <=> e.prefilter = "false"
    /\ outcome = "failed" =>
         LET e == scoreLog[Len(scoreLog)]
         IN e.lookup = "failed" \/ e.scoreJob = "failed" \/ e.saved = "failed"

\* the prefilter failed for the first job, which was scored all the same, and answered
\* false for the second, which was dropped; the call returned
C25_Witness ==
  /\ op = "score"
  /\ usePrefilter
  /\ outcome = "returned"
  /\ Len(scoreLog) = 2
  /\ scoreLog[1].prefilter = "failed" /\ scoreLog[1].scoreJob = "ok"
  /\ scoreLog[1].saved = "ok"
  /\ scoreLog[2].prefilter = "false" /\ scoreLog[2].scoreJob = "none"
  /\ failure = NoFailure

\* some call made for the i-th job failed
CallFailed(i) ==
  scoreLog[i].lookup = "failed" \/ scoreLog[i].scoreJob = "failed" \/ scoreLog[i].saved = "failed"

\* C26: when getJobScores, scoreJob or saveJobScore fails for a job, the scoreJobs call
\* fails there with a ScoreJobsError of type STORAGE_ERROR or LLM_ERROR: nothing is
\* returned, no call is made for a later job of the batch, and the store holds what it
\* held when the call started followed by the records saved for the earlier jobs.
C26_ScoringFailureFatal ==
  op = "score" =>
    /\ \A i \in 1..Len(scoreLog) :
         CallFailed(i) => /\ i = Len(scoreLog)
                          /\ pc = "idle"
                          /\ outcome = "failed"
    /\ outcome = "failed" =>
         /\ Len(scoreLog) \in 1..Len(processedJobs)
         /\ CallFailed(Len(scoreLog))
         /\ failure = IF scoreLog[Len(scoreLog)].scoreJob = "failed"
                        THEN "LLM_ERROR" ELSE "STORAGE_ERROR"
    /\ outcome # "failed" => failure = NoFailure
    /\ \A j \in JobIds :
         /\ Len(scoreStore[j]) >= Len(scoreStore0[j])
         /\ SubSeq(scoreStore[j], 1, Len(scoreStore0[j])) = scoreStore0[j]
         /\ Len(scoreStore[j]) - Len(scoreStore0[j]) =
              Cardinality({ i \in 1..Len(scoreLog) :
                              scoreLog[i].job = j /\ scoreLog[i].saved = "ok" })

\* the score of the first job was saved, then scoreJob failed for the second: the call
\* failed with LLM_ERROR and the record of the first job is still stored
C26_Witness ==
  /\ op = "score"
  /\ outcome = "failed"
  /\ failure = "LLM_ERROR"
  /\ processedJobs = << 1, 2 >>
  /\ scoreLog[1].saved = "ok"
  /\ scoreLog[2].scoreJob = "failed"
  /\ scoreStore[1] = Append(scoreStore0[1], FreshScore(scoreLog[1].score))
  /\ scoreStore[2] = scoreStore0[2]

\* ------------------------------------------- properties of sendNotifications calls
Digests == SelectSeq(notifyLog, LAMBDA n : n.kind = "digest")
Alerts == SelectSeq(notifyLog, LAMBDA n : n.kind = "alert")

\* the jobs of the request that carry a score of at least 85, in list order
AlertJobs == SelectSeq(scoredJobs, LAMBDA j : j.score # NoScore /\ j.score >= 85)

\* sendNotifications has returned to its caller: a stand-alone call, or the call made
\* by runJobDiscovery
NotifyReturned ==
  \/ op = "notify" /\ outcome = "returned"
  \/ op = "run" /\ ~dryRun /\ (pc = "saveCompleted" \/ (pc = "idle" /\ outcome = "returned"))

\* C27: a sendNotifications call with an empty job list sends exactly one digest and
\* no alert.
C27_EmptyListSendsDigest ==
  (NotifyReturned /\ scoredJobs = << >>) => (Len(Digests) = 1 /\ Alerts = << >>)

\* C28: a sendNotifications call with a non-empty job list makes at most one digest
\* call, before any alert; alerts are sent only with sendAlerts, for the jobs with a
\* score of at least 85 (the threshold of every caller), in list order, one attempt
\* each; when the call has returned, the digest and all those alerts have been attempted.
C28_DigestThenAlerts ==
  (op \in {"notify", "run"} /\ scoredJobs # << >>) =>
    /\ Len(Digests) <= 1
    /\ notifyLog # << >> => notifyLog[1].kind = "digest"
    /\ Alerts # << >> => (sendAlerts /\ notifyLog[1].ok)
    /\ Len(Alerts) <= Len(AlertJobs)
    /\ \A k \in 1..Len(Alerts) : /\ Alerts[k].job = AlertJobs[k].job
                                 /\ Alerts[k].score = AlertJobs[k].score
    /\ NotifyReturned =>
         /\ Len(Digests) = 1
         /\ Len(Alerts) = IF sendAlerts THEN Len(AlertJobs) ELSE 0

\* the list has a job at the threshold and a job without a score: one digest, then
\* one alert, for the first job only
C28_Witness ==
  /\ op = "notify"
  /\ outcome = "returned"
  /\ sendAlerts
  /\ scoredJobs = << [ job |-> 1, score |-> 85 ], [ job |-> 2, score |-> NoScore ] >>
  /\ Len(notifyLog) = 2
  /\ notifyLog[1] = DigestSent(TRUE)
  /\ notifyLog[2].kind = "alert" /\ notifyLog[2].job = 1

\* C29: a sendJobAlert failure does not end the call: the alerts for the remaining jobs
\* are attempted and the call returns.  A sendJobDigest failure ends the call with a
\* SendNotificationsError of type TELEGRAM_ERROR before any alert, and nothing else
\* makes the call fail.
C29_AlertFailuresIsolated ==
  op = "notify" =>
    /\ \A k \in 1..Len(notifyLog) :
         (notifyLog[k].kind = "digest" /\ ~notifyLog[k].ok) =>
           /\ Len(notifyLog) = 1
           /\ pc = "idle"
           /\ outcome = "failed"
           /\ failure = "TELEGRAM_ERROR"
    /\ outcome = "failed" => notifyLog = << DigestSent(FALSE) >>
    /\ outcome # "failed" => failure = NoFailure
    /\ (pc = "idle" /\ notifyLog # << >> /\ notifyLog[1].ok) =>
         /\ outcome = "returned"
         /\ sendAlerts => Len(Alerts) = Len(AlertJobs)

\* two jobs qualify; the alert for the first failed, the alert for the second was
\* sent and the call returned
C29_Witness ==
  /\ op = "notify"
  /\ outcome = "returned"
  /\ sendAlerts
  /\ Len(AlertJobs) = 2
  /\ Len(notifyLog) = 3
  /\ notifyLog[2].kind = "alert" /\ ~notifyLog[2].ok
  /\ notifyLog[3].kind = "alert" /\ notifyLog[3].ok

\* ---------------------------------------------------- properties of the instance lock
\* the processes that acquired the lock and are running their command
Running == { p \in Procs : proc[p].pc = "running" }

\* C30: however the steps of acquireLock of two CLI processes interleave, at most one
\* live process at a time has acquired the lock and is running a command.
C30_MutualExclusion == Cardinality(Running) <= 1

\* C31: a CLI process that found the lock held by a live process takes no step that
\* removes or alters the lock file or the pid file.
C31_RefusedLeavesLockAlone ==
  [][ \A p \in Procs :
        (proc[p].how = "held" /\ proc'[p] # proc[p])
          => (lockFile' = lockFile /\ pidFile' = pidFile) ]_vars

\* the ways a process that acquired the lock ends with its handlers run
Endings == {"success", "interrupted"} \cup Failures

\* C32: when a process that acquired the lock has ended by completing its command, by a
\* failed command, by a signal or by an uncaught exception, neither the lock file nor the
\* pid file it wrote exists.
C32_AcquirerReleased ==
  \A p \in Procs :
    (proc[p].pc = "done" /\ proc[p].how \in Endings) => (lockFile # p /\ pidFile # p)

\* the exit code the outcome of a command calls for
ExpectedCode(how) ==
  CASE how = "held" -> 20
    [] how = "configOrAuth" -> 10
    [] how = "command" -> 1
    [] how = "success" -> 0

\* C33: a process that has ended because the lock was held, because the configuration or
\* the authentication failed, because its command failed otherwise, or with success, has
\* ended with exit code 20, 10, 1 and 0 respectively.
C33_ExitCodeReflectsOutcome ==
  \A p \in Procs :
    (proc[p].pc = "done" /\ proc[p].how \in {"held", "configOrAuth", "command", "success"})
      => proc[p].code = ExpectedCode(proc[p].how)

\* C34: a purgeCache call never changes the stored jobs, runs or scores; one that returns
\* leaves the seen-set empty, and leaves the session slot as it was when the type is
\* "cache" and empty when the type is "all".
C34_PurgeCacheFrame ==
  [][ op' = "purge" =>
        /\ jobStore' = jobStore
        /\ runStore' = runStore
        /\ scoreStore' = scoreStore
        /\ purge'.ok =>
             /\ seen' = {}
             /\ purge'.type = "cache" => sessionSlot' = sessionSlot
             /\ purge'.type = "all" => sessionSlot' = NoSession ]_vars

\* purgeCache("cache") has returned: the seen-set is empty, the session and the jobs
\* stored before the call are still there
C34_Witness ==
  /\ op = "purge"
  /\ purge = [ type |-> "cache", ok |-> TRUE ]
  /\ seen = {}
  /\ sessionSlot # NoSession
  /\ jobStore = JobIds

\* the stored jobs a replay is due to send: those with a score of at least 70
DueForReplay == SelectSeq(storedJobs, LAMBDA j : j.score # NoScore /\ j.score >= 70)

\* C35: in a sendLastResults call every notifier call is a digest that carries exactly the
\* stored jobs with a score of at least 70 (a job without a score is left out) under a
\* replay run id, a call that returns with such jobs has sent one digest, no alert is
\* sent, and no step of the call changes storage.
C35_SendLastResults ==
  /\ [](op = "sendLast" =>
          /\ \A i \in DOMAIN notifyLog :
               /\ notifyLog[i].kind = "digest"
               /\ notifyLog[i].jobs = DueForReplay
               /\ notifyLog[i].runId = "replay"
          /\ (outcome = "returned" /\ DueForReplay # << >>) => Len(notifyLog) = 1)
  /\ [][ op' = "sendLast" => UNCHANGED storageVars ]_vars

\* two jobs are stored, one with score 70 and one with 69; the digest carried the first
C35_Witness ==
  /\ op = "sendLast"
  /\ outcome = "returned"
  /\ storedJobs = << [ job |-> 1, score |-> MinScore - 1 ], [ job |-> 2, score |-> MinScore ] >>
  /\ Len(notifyLog) = 1
  /\ notifyLog[1].ok
  /\ notifyLog[1].jobs = << [ job |-> 2, score |-> MinScore ] >>

\* C38: the jobs getJobsByCriteria hands to sendLastResults(criteria) were all saved by
\* scrapeJobs calls made for that criteria.
C38_CriteriaIsolation ==
  op = "sendLast" =>
    \A i \in DOMAIN storedJobs : savedFor[storedJobs[i].job] = criteriaId

\* the collaborator operations of the stages of a run
ScrapeOps == {"getJobsByCriteria", "scrapeJobs", "getSeenJobIds", "saveJob", "markJobAsSeen"}
ExtractOps == {"extractJobData"}
ScoreOps == {"getJobScores", "prefilterJob", "scoreJob", "saveJobScore"}
NotifyOps == {"sendJobDigest", "sendJobAlert"}

\* runJobDiscovery has failed and returned no JobRun
RunFailed == pc = "idle" /\ outcome = "failed" /\ result = NoRun

\* a failure of authenticate, of scrapeJobs, of a getJobScores, scoreJob or saveJobScore
\* call, or of the digest ends the run with the error of that stage, and no operation of
\* a later stage has been called
StageFailuresEndRun ==
  /\ authError # "" =>
       RunFailed /\ called \cap (ScrapeOps \cup ExtractOps \cup ScoreOps \cup NotifyOps) = {}
  /\ (failure # NoFailure /\ scoreLog = << >> /\ notifyLog = << >>) =>
       /\ RunFailed
       /\ failure \in {"SCRAPING_FAILED", "STORAGE_ERROR"}
       /\ called \cap (ExtractOps \cup ScoreOps \cup NotifyOps) = {}
  /\ \A i \in 1..Len(scoreLog) :
       CallFailed(i) =>
         /\ RunFailed
         /\ i = Len(scoreLog)
         /\ failure \in {"STORAGE_ERROR", "LLM_ERROR"}
         /\ called \cap NotifyOps = {}
  /\ \A i \in 1..Len(notifyLog) :
       (notifyLog[i].kind = "digest" /\ ~notifyLog[i].ok) =>
         /\ RunFailed
         /\ failure = "TELEGRAM_ERROR"
         /\ Len(notifyLog) = 1
         /\ "sendJobAlert" \notin called

\* a prefilterJob call of the run has failed
PrefilterFailed == \E i \in 1..Len(scoreLog) : scoreLog[i].prefilter = "failed"

\* C36 as claimed: a stage failure ends the run with that stage's error before any call
\* of a later stage, and a run that has not failed has seen no failed collaborator call
\* other than extractJobData and sendJobAlert calls.
C36_OnlyExtractionAndAlertsTolerated ==
  op = "run" =>
    /\ StageFailuresEndRun
    /\ PrefilterFailed => outcome = "failed"

\* C36: a failure of authenticate, of scrapeJobs, of getJobScores, scoreJob or
\* saveJobScore, or of the digest ends the run with that stage's error before any call of
\* a later stage; a run goes on after a failed extractJobData, sendJobAlert or
\* prefilterJob call only, so a run that returned has seen no other failure.
C36_StageFailuresPropagate ==
  op = "run" =>
    /\ StageFailuresEndRun
    /\ outcome = "returned" => (authError = "" /\ failure = NoFailure)

\* the prefilter failed for a job and the run went on to score it; scoreJob failed: the
\* run failed with LLM_ERROR and the notifier was not called
C36_Witness ==
  /\ op = "run"
  /\ RunFailed
  /\ failure = "LLM_ERROR"
  /\ PrefilterFailed
  /\ scoreLog[Len(scoreLog)].scoreJob = "failed"
  /\ called \cap NotifyOps = {}

\* the scrape stage from both of its entry points: stand-alone scrapeJobs calls, and runs
\* as far as the save that ends their scrape stage (Spec has the later stages of a run)
NextRunScrape ==
  \/ ScrapeStart
  \/ RunStart
  \/ SaveInitialRun
  \/ GetSession
  \/ IsLoggedIn
  \/ DeleteSession
  \/ Login
  \/ SaveSession
  \/ GetJobsByCriteria
  \/ ScrapeJobs
  \/ GetSeenJobIds
  \/ SaveJob
  \/ MarkJobAsSeen
  \/ SaveRun1

SpecRunScrape == InitService /\ [][NextRunScrape]_vars

\* a stand-alone scrapeJobs call without `since` that found jobs in the store returns
\* them: the scraper is not called, no job is saved and no id is marked seen
ShortCircuit ==
  (op = "scrape" /\ ~hasSince /\ jobStore0 # {}) =>
    /\ called \subseteq {"getJobsByCriteria"}
    /\ jobStore = jobStore0
    /\ seen = seen0
    /\ persisted = << >>
    /\ ("getJobsByCriteria" \in called /\ outcome # "failed") =>
         /\ pc = "idle"
         /\ outcome = "returned"
         /\ savedJobs = StoredJobs(jobStore0)

\* authenticate has returned a session to the run, and the run is past the steps of its
\* scrape stage that come before the scraper's answer
PastScraperCall ==
  /\ session # NoSession
  /\ authError = ""
  /\ pc \notin {"saveSession", "getJobsByCriteria", "scrapeJobs"}

\* C37 as claimed: the short-circuit of a stand-alone call, and in a run a `since` is
\* passed and the scraper is called exactly once whenever authentication succeeded.
C37_ScraperCalledInEveryRun ==
  /\ ShortCircuit
  /\ op = "run" =>
       /\ hasSince
       /\ pc = "scrapeJobs" => "scrapeJobs" \notin called
       /\ PastScraperCall => "scrapeJobs" \in called

\* C37: a stand-alone scrapeJobs call without `since` that finds stored jobs returns them
\* without calling the scraper or writing; a run passes `since`, never calls the
\* scraper twice, and has called it once authentication succeeded unless the
\* getJobsByCriteria lookup before it failed, which fails the run with STORAGE_ERROR.
C37_ShortCircuitOffRunPath ==
  /\ ShortCircuit
  /\ op = "run" =>
       /\ hasSince
       /\ pc = "scrapeJobs" => "scrapeJobs" \notin called
       /\ PastScraperCall =>
            \/ "scrapeJobs" \in called
            \/ /\ pc = "idle" /\ outcome = "failed" /\ failure = "STORAGE_ERROR"
               /\ called \cap {"scrapeJobs", "getSeenJobIds", "saveJob", "markJobAsSeen"} = {}

\* a stand-alone call without `since` returned the two stored jobs, scraper not called
C37_Witness ==
  /\ op = "scrape"
  /\ ~hasSince
  /\ jobStore0 = {1, 2}
  /\ outcome = "returned"
  /\ savedJobs = << 1, 2 >>
  /\ "scrapeJobs" \notin called

\* C39: a job whose id was in the seen-set when a run started is not handed to
\* extraction, to scoring or to the notifier by that run, whatever the runs before it
\* did with the job.
C39_SeenJobsNeverReprocessed ==
  op = "run" =>
    \A j \in seen0 :
      /\ j \notin Range(rawJobs)
      /\ j \notin Range(processedJobs)
      /\ \A i \in DOMAIN scoreLog : scoreLog[i].job # j
      /\ \A i \in DOMAIN scoredJobs : scoredJobs[i].job # j
      /\ j \notin notified
      /\ \A i \in DOMAIN notifyLog :
           /\ notifyLog[i].job # j
           /\ notifyLog[i].kind = "digest" =>
                \A k \in DOMAIN notifyLog[i].jobs : notifyLog[i].jobs[k].job # j

\* job 1 was seen and never notified; the scraper answered with jobs 1 and 2, and the run
\* extracted, scored and notified job 2 only
C39_Witness ==
  /\ op = "run"
  /\ seen0 = {1}
  /\ notifiedBefore = {}
  /\ scrapedJobs = << 1, 2 >>
  /\ rawJobs = << 2 >>
  /\ notified = {2}
  /\ outcome = "returned"
  /\ Len(notifyLog) >= 1

====
